---- MODULE Spec2Model ----
(***************************************************************************)
(* A model of the aggregation and alias-reconciliation pipeline of the     *)
(* Commits repository: the alias resolver (author_mapper.py), the          *)
(* day-of-week folds and the performance table                             *)
(* (weekly_performance_analyzer.py), the weekly statistics, their trend    *)
(* calculator and the contributor statistics requests (github_stats.py),   *)
(* and the pull request search and its day-of-week counts (pr_metrics.py). *)
(*                                                                         *)
(* Python values are modelled as follows.  A str is a sequence of          *)
(* one-character tokens, so that lower() and upper() are computed.  A dict *)
(* whose iteration order matters is a sequence of entries in insertion     *)
(* order; a dict read only by key is a function.  A dict that may lack a   *)
(* key is a record (function) without that field; Get is dict.get.  A      *)
(* float produced by round(x, 2) is the integer number of hundredths.      *)
(***************************************************************************)
EXTENDS Integers, Sequences, FiniteSets, TLC

VARIABLES
    aliases,                \* AuthorMapper.aliases: canonical name -> list of aliases
    username_to_canonical,  \* AuthorMapper.username_to_canonical: lower-cased name -> canonical
    stats_list,             \* the argument handed to merge_author_stats
    merged_results,         \* what merge_author_stats returned or raised
    weekly_stats,           \* the weekly records fetch_weekly_commits returned
    day_stats,              \* what aggregate_by_day_of_week returned or raised
    day_lookup,             \* a timestamp with what get_day_name and get_day_of_week_stats returned
    combined_stats,         \* what analyze_all_repos returned
    all_stats,              \* analyze_weekly_performance's all_stats after its fold
    weekly_aggregates,      \* the argument handed to calculate_weekly_trends
    trends,                 \* what calculate_weekly_trends returned
    alias_calls,            \* the add_alias calls made so far, as <<canonical_name, new_alias>>
    alias_lookup,           \* a username with what is_aliased and get_canonical_name returned
    utc_offset,             \* the UTC offset, in seconds, of the deployment's local time zone
    contributors,           \* the contributor records fetch_contributor_stats returned
    num_weeks,              \* the num_weeks argument
    processed_stats,        \* what process_statistics returned
    aggregated_weeks,       \* what aggregate_by_week returned
    grouped_stats,          \* the argument handed to generate_performance_table
    performance_table,      \* what generate_performance_table returned
    author_stats,           \* the argument handed to generate_day_breakdown
    day_breakdown,          \* what generate_day_breakdown returned
    pr_fetches,             \* what the pull request searches of a run gave, by author
    run_pc,                 \* where a run of analyze_weekly_performance is in step 2
    fetch_log,              \* the responses to the requests of fetch_contributor_stats, by repository
    run_result,             \* what the run returned or raised
    search_pc,              \* where a call of PRMetrics._make_search_request is
    search_log,             \* the responses to the requests of the call
    search_result,          \* what the call returned or raised
    pr_items,               \* the items handed to PRMetrics.aggregate_by_day_of_week
    date_field,             \* its date_field argument
    day_counts              \* what it returned

mapperVars == <<aliases, username_to_canonical>>
mergeVars  == <<stats_list, merged_results>>
dayVars    == <<weekly_stats, day_stats, day_lookup, combined_stats, all_stats>>
trendVars  == <<weekly_aggregates, trends>>
aliasVars  == <<alias_calls, alias_lookup>>
weekVars   == <<utc_offset, contributors, num_weeks, processed_stats, aggregated_weeks>>
tableVars  == <<grouped_stats, performance_table, pr_fetches>>
breakdownVars == <<author_stats, day_breakdown>>
fetchVars  == <<run_pc, fetch_log, run_result>>
searchVars == <<search_pc, search_log, search_result>>
prVars     == <<pr_items, date_field, day_counts>>
vars == <<aliases, username_to_canonical, stats_list, merged_results,
          weekly_stats, day_stats, day_lookup, combined_stats, all_stats,
          weekly_aggregates, trends, alias_calls, alias_lookup, utc_offset,
          contributors, num_weeks, processed_stats, aggregated_weeks,
          grouped_stats, performance_table, author_stats, day_breakdown,
          pr_fetches, run_pc, fetch_log, run_result, search_pc, search_log,
          search_result, pr_items, date_field, day_counts>>

(***************************************************************************)
(* Bounds of the model.                                                    *)
(***************************************************************************)
MaxStatsList == 3     \* records in one merge_author_stats argument
MaxWeeklyStats == 2   \* weekly records in one day-of-week fold
MaxCommits == 2       \* total commits of one week handed to the trend calculator
MaxAliasCalls == 3    \* add_alias calls on one AuthorMapper
MaxWeekEntries == 2   \* weekly entries of one contributor record, and the largest num_weeks
MaxPrItems == 2       \* items in one list handed to PRMetrics.aggregate_by_day_of_week

(***************************************************************************)
(* Python values.                                                          *)
(***************************************************************************)
\* A call that has not been made yet.
NotRun == [status |-> "not_run"]

\* dict.get(k, d)
Get(r, k, d) == IF k \in DOMAIN r THEN r[k] ELSE d

\* d[k] = v on a dict read by key
Put(m, k, v) == [x \in DOMAIN m \cup {k} |-> IF x = k THEN v ELSE m[x]]

\* The empty dict read by key.
EmptyDict == [x \in {} |-> 0]

RECURSIVE SumSeq(_)
SumSeq(s) == IF s = <<>> THEN 0 ELSE Head(s) + SumSeq(Tail(s))

RECURSIVE SumSet(_, _)
\* The sum of f[x] over the x of S.
SumSet(f, S) ==
    IF S = {} THEN 0
    ELSE LET x == CHOOSE y \in S : TRUE IN f[x] + SumSet(f, S \ {x})

SeqRange(s) == {s[i] : i \in 1..Len(s)}

\* The characters of the modelled strings.  "sharp_s" stands for U+00DF
\* (LATIN SMALL LETTER SHARP S), which str.lower() leaves alone and
\* str.upper() turns into the two letters "SS".
SharpS == "sharp_s"

\* str.lower(), one character
LowerChar(c) ==
    CASE c = "A" -> "a"
      [] c = "B" -> "b"
      [] c = "S" -> "s"
      [] OTHER -> c

\* str.upper(), one character; the result is a string
UpperChar(c) ==
    CASE c = "a" -> <<"A">>
      [] c = "b" -> <<"B">>
      [] c = "s" -> <<"S">>
      [] c = SharpS -> <<"S", "S">>
      [] OTHER -> <<c>>

\* str.lower()
Lower(s) == [i \in 1..Len(s) |-> LowerChar(s[i])]

RECURSIVE Upper(_)
\* str.upper()
Upper(s) == IF s = <<>> THEN <<>> ELSE UpperChar(Head(s)) \o Upper(Tail(s))

\* The strings of the model.
EmptyStr == <<>>
NameA == <<"A">>
NameA1 == <<"a", "1">>
NameA2 == <<"a", "2">>
NameBob == <<"b">>
NameCarol == <<"c">>
NameDave == <<"d">>
NameEve == <<"e">>
NameBot == <<"B", "o", "t">>
NameSharp == <<"S", SharpS>>
UnknownLogin == <<"unknown">>

(***************************************************************************)
(* author_mapper.py: AuthorMapper                                          *)
(***************************************************************************)
\* The alias configurations load_aliases can return: no file (the empty
\* table), and JSON objects of canonical name -> list of aliases, in the
\* order of the file.
AliasFiles ==
    { <<>>,
      << [name |-> NameA, aliases |-> <<NameA1, NameA2>>] >>,
      << [name |-> NameSharp, aliases |-> <<NameBob>>] >>,
      << [name |-> NameA, aliases |-> <<NameA1>>],
         [name |-> NameBob, aliases |-> <<NameA2>>] >> }

RECURSIVE MapAliasList(_, _, _)
\* build_reverse_mapping's inner loop: each alias, lower-cased, to the canonical name.
MapAliasList(m, als, canonical) ==
    IF als = <<>> THEN m
    ELSE MapAliasList(Put(m, Lower(Head(als)), canonical), Tail(als), canonical)

RECURSIVE MapEntries(_, _)
\* build_reverse_mapping's outer loop: the aliases of an entry, then its
\* canonical name mapped to itself; a later assignment overwrites an earlier one.
MapEntries(m, entries) ==
    IF entries = <<>> THEN m
    ELSE LET e == Head(entries)
         IN MapEntries(Put(MapAliasList(m, e.aliases, e.name), Lower(e.name), e.name),
                       Tail(entries))

build_reverse_mapping(table) == MapEntries(EmptyDict, table)

\* get_canonical_name: an empty username is returned as it is; otherwise the
\* lower-cased username is looked up, and a hit that is a non-empty string wins.
get_canonical_name(username) ==
    IF username = EmptyStr THEN username
    ELSE IF Lower(username) \in DOMAIN username_to_canonical
            /\ username_to_canonical[Lower(username)] # EmptyStr
         THEN username_to_canonical[Lower(username)]
         ELSE username

\* is_aliased: the lower-cased username is a key of the reverse mapping.
is_aliased(username) == Lower(username) \in DOMAIN username_to_canonical

\* The position of canonical_name among the keys of the alias table, 0 if absent.
TableIndex(table, canonical_name) ==
    IF \E i \in 1..Len(table) : table[i].name = canonical_name
    THEN CHOOSE i \in 1..Len(table) : table[i].name = canonical_name
    ELSE 0

\* add_alias: the alias table and the reverse mapping after the call.  A
\* canonical name that is no key of the table gets an empty list; an alias
\* that is not in the list (compared as written) is appended and its lower
\* case is pointed at the canonical name; nothing else is touched.
add_alias(table, reverse, canonical_name, new_alias) ==
    LET with_key == IF TableIndex(table, canonical_name) = 0
                    THEN Append(table, [name |-> canonical_name, aliases |-> <<>>])
                    ELSE table
        i == TableIndex(with_key, canonical_name)
    IN IF new_alias \in SeqRange(with_key[i].aliases)
       THEN [aliases |-> with_key, username_to_canonical |-> reverse]
       ELSE [aliases |-> [with_key EXCEPT ![i].aliases = Append(@, new_alias)],
             username_to_canonical |-> Put(reverse, Lower(new_alias), canonical_name)]

\* The fields _merge_stats_entries sums.
numeric_fields ==
    {"commits", "additions", "deletions", "total_commits", "total_additions",
     "total_deletions", "lines_added", "lines_removed", "net_lines"}

\* stats.get('author', stats.get('username', ''))
record_author(stats) == Get(stats, "author", Get(stats, "username", EmptyStr))

\* week.get('w', week.get('week', 0))
week_key(week) == Get(week, "w", Get(week, "week", 0))

ZeroMetrics == [commits |-> 0, additions |-> 0, deletions |-> 0]

\* AddWeekEntry with the week's metrics stored over those already merged.
AddWeekEntry_Overwrite(wm, week) ==
    Put(wm, week_key(week),
        [commits   |-> Get(week, "c", Get(week, "commits", 0)),
         additions |-> Get(week, "a", Get(week, "additions", 0)),
         deletions |-> Get(week, "d", Get(week, "deletions", 0))])

\* One week of an entry's 'weeks' added to weekly_stats_merged (a defaultdict).
AddWeekEntry(wm, week) ==
    LET k == week_key(week)
        old == IF k \in DOMAIN wm THEN wm[k] ELSE ZeroMetrics
    IN Put(wm, k,
           [commits   |-> old.commits + Get(week, "c", Get(week, "commits", 0)),
            additions |-> old.additions + Get(week, "a", Get(week, "additions", 0)),
            deletions |-> old.deletions + Get(week, "d", Get(week, "deletions", 0))])

RECURSIVE AddWeekEntries(_, _)
AddWeekEntries(wm, weeks) ==
    IF weeks = <<>> THEN wm
    ELSE AddWeekEntries(AddWeekEntry(wm, Head(weeks)), Tail(weeks))

RECURSIVE SortedSeq(_)
\* sorted() of a set of integers
SortedSeq(S) ==
    IF S = {} THEN <<>>
    ELSE LET lo == CHOOSE x \in S : \A y \in S : x <= y
         IN <<lo>> \o SortedSeq(S \ {lo})

\* weekly_stats_merged as the list of {'w','c','a','d'}, sorted by week key
WeeksList(wm) ==
    LET ks == SortedSeq(DOMAIN wm)
    IN [i \in 1..Len(ks) |-> [w |-> ks[i], c |-> wm[ks[i]].commits,
                              a |-> wm[ks[i]].additions, d |-> wm[ks[i]].deletions]]

\* The body of _merge_stats_entries' loop for one entry, on the accumulator
\* acc = [err, rec, wm]: merged[field] += entry[field] raises KeyError when
\* the template (the first entry) has no such field.
MergeOneEntry(acc, entry) ==
    IF acc.err THEN acc
    ELSE IF \E f \in numeric_fields : f \in DOMAIN entry /\ f \notin DOMAIN acc.rec
    THEN [acc EXCEPT !.err = TRUE]
    ELSE [err |-> FALSE,
          rec |-> [f \in DOMAIN acc.rec |->
                     IF f = "original_authors"
                     THEN IF record_author(entry) # EmptyStr
                          THEN acc.rec[f] \cup {record_author(entry)}
                          ELSE acc.rec[f]
                     ELSE IF f \in numeric_fields /\ f \in DOMAIN entry
                          THEN acc.rec[f] + entry[f]
                          ELSE acc.rec[f]],
          wm |-> IF "weeks" \in DOMAIN entry
                 THEN AddWeekEntries(acc.wm, entry.weeks)
                 ELSE acc.wm]

RECURSIVE MergeLoop(_, _)
MergeLoop(acc, entries) ==
    IF entries = <<>> THEN acc
    ELSE MergeLoop(MergeOneEntry(acc, Head(entries)), Tail(entries))

\* _merge_stats_entries: the template is a copy of the first entry with the
\* canonical author, no original authors and its numeric fields zeroed; the
\* result is [err |-> TRUE] for a KeyError.  original_authors, a list in
\* unspecified order (list(set(...))), is modelled as the set of its elements.
merge_stats_entries(stats_entries, canonical_name) ==
    LET first == stats_entries[1]
        template == [f \in DOMAIN first \cup {"author", "original_authors"} |->
                       IF f = "author" THEN canonical_name
                       ELSE IF f = "original_authors" THEN {}
                       ELSE IF f \in numeric_fields THEN 0
                       ELSE first[f]]
        acc == MergeLoop([err |-> FALSE, rec |-> template, wm |-> EmptyDict],
                         stats_entries)
    IN IF acc.err THEN [err |-> TRUE]
       ELSE [err |-> FALSE,
             rec |-> IF DOMAIN acc.wm # {}
                     THEN Put(acc.rec, "weeks", WeeksList(acc.wm))
                     ELSE acc.rec]

RECURSIVE GroupNames_LastFirst(_, _)
\* GroupNames with each new group put before the earlier ones.
GroupNames_LastFirst(list, seen) ==
    IF list = <<>> THEN <<>>
    ELSE LET author == record_author(Head(list))
             name == get_canonical_name(author)
         IN IF author = EmptyStr \/ name \in seen
            THEN GroupNames_LastFirst(Tail(list), seen)
            ELSE GroupNames_LastFirst(Tail(list), seen \cup {name}) \o <<name>>

RECURSIVE GroupNames(_, _)
\* The keys of grouped_stats in insertion order: the canonical names of the
\* records that have an author, each at its first occurrence.
GroupNames(list, seen) ==
    IF list = <<>> THEN <<>>
    ELSE LET author == record_author(Head(list))
             name == get_canonical_name(author)
         IN IF author = EmptyStr \/ name \in seen
            THEN GroupNames(Tail(list), seen)
            ELSE <<name>> \o GroupNames(Tail(list), seen \cup {name})

\* grouped_stats[canonical_name]
GroupOf(list, name) ==
    SelectSeq(list, LAMBDA s : record_author(s) # EmptyStr
                               /\ get_canonical_name(record_author(s)) = name)

\* What merge_author_stats appends for one group.
MergeGroup(author_stats_list, canonical_name) ==
    IF Len(author_stats_list) = 1
    THEN LET only == author_stats_list[1]
         IN [err |-> FALSE,
             rec |-> [f \in DOMAIN only \cup {"author", "original_authors"} |->
                        IF f = "author" THEN canonical_name
                        ELSE IF f = "original_authors"
                             THEN {Get(only, "author", canonical_name)}
                             ELSE only[f]]]
    ELSE merge_stats_entries(author_stats_list, canonical_name)

\* merge_author_stats: [status |-> "ok", value |-> the merged list], or
\* [status |-> "KeyError"] when merging a group raised.
merge_author_stats(list) ==
    IF list = <<>> THEN [status |-> "ok", value |-> list]
    ELSE LET names == GroupNames(list, {})
             groups == [i \in 1..Len(names) |-> MergeGroup(GroupOf(list, names[i]), names[i])]
         IN IF \E i \in 1..Len(names) : groups[i].err
            THEN [status |-> "KeyError"]
            ELSE [status |-> "ok", value |-> [i \in 1..Len(names) |-> groups[i].rec]]

(***************************************************************************)
(* weekly_performance_analyzer.py: the day-of-week folds                   *)
(***************************************************************************)
\* date(1970, 1, 1).toordinal(): the proleptic Gregorian ordinal of the epoch.
EpochOrdinal == 719163
SecondsPerDay == 86400

\* utc_weekday with the week starting on Sunday (isoweekday() % 7).
utc_weekday_SundayFirst(timestamp) == (EpochOrdinal + (timestamp \div SecondsPerDay)) % 7

\* datetime.fromtimestamp(ts, tz=timezone.utc).weekday(): the ordinal of the
\* UTC date of ts, plus 6, modulo 7 (Monday is 0).
utc_weekday(timestamp) == (EpochOrdinal + (timestamp \div SecondsPerDay) + 6) % 7

\* The list 'days' of get_day_name and get_day_of_week_stats.
days == <<"Monday", "Tuesday", "Wednesday", "Thursday", "Friday", "Saturday", "Sunday">>

\* get_day_name: "Unknown" for a falsy timestamp (0; an absent 'w' reads as 0).
get_day_name(timestamp) ==
    IF timestamp = 0 THEN "Unknown" ELSE days[utc_weekday(timestamp) + 1]

\* get_day_of_week_stats: (day name, weekday number)
get_day_of_week_stats(timestamp) ==
    <<days[utc_weekday(timestamp) + 1], utc_weekday(timestamp)>>

\* One week's counters added to a {'commits','additions','deletions'} dict.
AddMetrics(m, week) ==
    [commits   |-> m.commits + Get(week, "c", 0),
     additions |-> m.additions + Get(week, "a", 0),
     deletions |-> m.deletions + Get(week, "d", 0)]

\* The body of aggregate_by_day_of_week's loop: the day name is truthy
\* whenever it is a non-empty string, and day_stats[day_name] raises KeyError
\* for a name that is no key of day_stats.
AggregateStep(acc, week_data) ==
    LET day_name == get_day_name(Get(week_data, "w", 0))
    IN IF acc.status # "ok" THEN acc
       ELSE IF day_name = "" THEN acc
       ELSE IF day_name \notin DOMAIN acc.value THEN [status |-> "KeyError"]
       ELSE [acc EXCEPT !.value[day_name] = AddMetrics(@, week_data)]

RECURSIVE AggregateLoop(_, _)
AggregateLoop(acc, stats) ==
    IF stats = <<>> THEN acc
    ELSE AggregateLoop(AggregateStep(acc, Head(stats)), Tail(stats))

\* aggregate_by_day_of_week: [status |-> "ok", value |-> day_stats], or
\* [status |-> "KeyError"].
aggregate_by_day_of_week(stats) ==
    AggregateLoop([status |-> "ok",
                   value |-> [d \in SeqRange(days) |-> ZeroMetrics]], stats)

\* The body of analyze_all_repos' loop: combined_stats[author][day_name],
\* entries of nested defaultdicts, are created when the counters are added.
CombineStep(combined, week) ==
    LET author == Get(week, "author", UnknownLogin)
        day_name == get_day_name(Get(week, "w", 0))
        by_day == IF author \in DOMAIN combined THEN combined[author] ELSE EmptyDict
        old == IF day_name \in DOMAIN by_day THEN by_day[day_name] ELSE ZeroMetrics
    IN IF day_name # "Unknown"
       THEN Put(combined, author, Put(by_day, day_name, AddMetrics(old, week)))
       ELSE combined

RECURSIVE CombineLoop(_, _)
CombineLoop(combined, weeks) ==
    IF weeks = <<>> THEN combined
    ELSE CombineLoop(CombineStep(combined, Head(weeks)), Tail(weeks))

\* analyze_all_repos, on the weekly records of all repositories (their
\* lists, one after the other): author -> day name -> counters.
analyze_all_repos(weeks) == CombineLoop(EmptyDict, weeks)

\* generate_day_breakdown that copies every key of the argument.
generate_day_breakdown_AllKeys(stats) ==
    [d \in SeqRange(days) \cup DOMAIN stats |->
        IF d \in DOMAIN stats THEN stats[d] ELSE ZeroMetrics]

\* generate_day_breakdown: day_totals starts with zeros for the seven
\* weekdays, and each key of the argument that is one of them replaces the
\* zeros by the argument's metrics.
generate_day_breakdown(stats) ==
    [d \in SeqRange(days) |-> IF d \in DOMAIN stats THEN stats[d] ELSE ZeroMetrics]

\* all_stats[canonical_author] as analyze_weekly_performance creates it.
NewAuthorStats(canonical_author) ==
    [author |-> canonical_author,
     commits_by_day |-> EmptyDict,
     pr_metrics |-> [opened |-> 0, merged |-> 0, reviewed |-> 0],
     total_commits |-> 0, total_additions |-> 0, total_deletions |-> 0,
     aliases |-> {}]

\* One week folded into an author's entry (lines 246-257): the alias is
\* recorded, and the counters are added unless the day is "Unknown".
FoldWeek(entry, author, week) ==
    LET day_name == get_day_name(Get(week, "w", 0))
        seen == [entry EXCEPT !.aliases = @ \cup {author}]
    IN IF day_name = "Unknown" THEN seen
       ELSE [seen EXCEPT
               !.commits_by_day =
                   Put(@, day_name,
                       AddMetrics(IF day_name \in DOMAIN @ THEN @[day_name]
                                  ELSE ZeroMetrics, week)),
               !.total_commits = @ + Get(week, "c", 0),
               !.total_additions = @ + Get(week, "a", 0),
               !.total_deletions = @ + Get(week, "d", 0)]

\* The position of an author's entry in all_stats (a dict in insertion
\* order), 0 when there is none.
IndexOf(stats, canonical_author) ==
    IF \E i \in 1..Len(stats) : stats[i].author = canonical_author
    THEN CHOOSE i \in 1..Len(stats) : stats[i].author = canonical_author
    ELSE 0

\* The body of analyze_weekly_performance's loop over the weekly records.
AnalyzeStep(stats, week) ==
    LET author == Get(week, "author", UnknownLogin)
        canonical_author == get_canonical_name(author)
        with == IF IndexOf(stats, canonical_author) = 0
                THEN Append(stats, NewAuthorStats(canonical_author))
                ELSE stats
        i == IndexOf(with, canonical_author)
    IN [with EXCEPT ![i] = FoldWeek(@, author, week)]

RECURSIVE AnalyzeLoop(_, _)
AnalyzeLoop(stats, weeks) ==
    IF weeks = <<>> THEN stats
    ELSE AnalyzeLoop(AnalyzeStep(stats, Head(weeks)), Tail(weeks))

\* Step 2 of analyze_weekly_performance: all_stats after the fold over the
\* weekly records of all repositories (their lists, one after the other).
analyze_fold(weeks) == AnalyzeLoop(<<>>, weeks)

\* The accounts step 3 of analyze_weekly_performance fetches no pull
\* requests for, and the accounts generate_performance_table leaves out.
PrBotAccounts ==
    { <<"o", "-", "p", "-", "e", "-", "n", "-", "i", "o", "s">>,
      <<"o", "p", "e", "n", "e", "n", "g", "b", "o", "t">>,
      <<"b", "o", "t">>,
      <<"g", "i", "t", "h", "u", "b", "-", "a", "c", "t", "i", "o", "n", "s", "[", "b", "o", "t", "]">>,
      <<"c", "l", "a", "u", "d", "e", "[", "b", "o", "t", "]">> }
TableBotAccounts ==
    { <<"o", "-", "p", "-", "e", "-", "n", "-", "i", "o", "s">>,
      <<"o", "p", "e", "n", "e", "n", "g", "b", "o", "t">>,
      <<"b", "o", "t">> }

\* The number of contributors pull requests are fetched for.
TopPrContributors == 5

\* The position of entry i in sorted(all_stats.items(), key=total_commits,
\* reverse=True), a stable sort.
CommitRank(stats, i) ==
    1 + Cardinality({j \in 1..Len(stats) :
                       \/ stats[j].total_commits > stats[i].total_commits
                       \/ stats[j].total_commits = stats[i].total_commits /\ j < i})

\* The repositories of a run.
Repos == <<"r1", "r2">>

\* What a pull request search gives: a list of count items, or an exception.
FetchOk(count) == [status |-> "ok", count |-> count]
FetchError == [status |-> "error"]

\* The body of the try block for one (alias, repository) pair: the counts
\* of the pull requests opened, then merged, then, when one was opened or
\* merged so far, reviewed are added; an exception of a search ends the
\* body, is caught, and the loop continues with the next pair.
FetchPair(metrics, outcome) ==
    IF outcome.opened.status # "ok" THEN metrics
    ELSE LET opened == [metrics EXCEPT !.opened = @ + outcome.opened.count]
         IN IF outcome.merged.status # "ok" THEN opened
            ELSE LET merged == [opened EXCEPT !.merged = @ + outcome.merged.count]
                 IN IF merged.opened > 0 \/ merged.merged > 0
                    THEN IF outcome.reviewed.status # "ok" THEN merged
                         ELSE [merged EXCEPT !.reviewed = @ + outcome.reviewed.count]
                    ELSE merged

RECURSIVE FetchPairs_StopAtError(_, _)
\* FetchPairs that leaves the loops at the first exception.
FetchPairs_StopAtError(metrics, outcomes) ==
    IF outcomes = <<>> THEN metrics
    ELSE IF \E f \in {"opened", "merged"} : Head(outcomes)[f].status # "ok"
         THEN FetchPair(metrics, Head(outcomes))
         ELSE FetchPairs_StopAtError(FetchPair(metrics, Head(outcomes)), Tail(outcomes))

RECURSIVE FetchPairs(_, _)
\* The loops over the aliases of an author and the repositories.
FetchPairs(metrics, outcomes) ==
    IF outcomes = <<>> THEN metrics
    ELSE FetchPairs(FetchPair(metrics, Head(outcomes)), Tail(outcomes))

\* Whether step 3 fetches pull requests for entry i of all_stats: it is
\* among the top contributors and no bot account.
PrFetched(stats, i) ==
    /\ CommitRank(stats, i) <= TopPrContributors
    /\ Lower(stats[i].author) \notin PrBotAccounts

\* Step 3 of analyze_weekly_performance: prs[i] lists what the searches
\* gave for the (alias, repository) pairs of entry i.
pr_phase(stats, prs) ==
    [i \in 1..Len(stats) |->
        IF PrFetched(stats, i)
        THEN [stats[i] EXCEPT !.pr_metrics = FetchPairs(@, prs[i])]
        ELSE stats[i]]

\* The names of a dict read by key whose entry passes a test, in the order of days.
RECURSIVE ActiveDays(_, _)
ActiveDays(commits_by_day, ds) ==
    IF ds = <<>> THEN <<>>
    ELSE (IF Head(ds) \in DOMAIN commits_by_day /\ commits_by_day[Head(ds)].commits > 0
          THEN <<Head(ds)>> ELSE <<>>) \o ActiveDays(commits_by_day, Tail(ds))

\* author_summary of generate_performance_table: by_day holds the days of
\* commits_by_day with commits; pr_metrics is there when a pull request was
\* opened or merged.
AuthorSummary(stats) ==
    LET active == SeqRange(ActiveDays(stats.commits_by_day, days))
        summary == [author |-> stats.author,
                    total_commits |-> stats.total_commits,
                    total_additions |-> stats.total_additions,
                    total_deletions |-> stats.total_deletions,
                    aliases |-> stats.aliases,
                    by_day |-> [d \in active |-> stats.commits_by_day[d]]]
    IN IF stats.pr_metrics.opened > 0 \/ stats.pr_metrics.merged > 0
       THEN summary @@ [pr_metrics |-> stats.pr_metrics]
       ELSE summary

\* The body of generate_performance_table's loop for one author.
TableStep(table, stats) ==
    IF Lower(stats.author) \in TableBotAccounts THEN table
    ELSE LET summary == AuthorSummary(stats)
             by_day == [d \in DOMAIN table.by_day \cup DOMAIN summary.by_day |->
                          LET old == IF d \in DOMAIN table.by_day THEN table.by_day[d]
                                     ELSE ZeroMetrics
                          IN IF d \in DOMAIN summary.by_day
                             THEN [commits |-> old.commits + summary.by_day[d].commits,
                                   additions |-> old.additions + summary.by_day[d].additions,
                                   deletions |-> old.deletions + summary.by_day[d].deletions]
                             ELSE old]
         IN [table EXCEPT
                !.by_day = by_day,
                !.by_author = IF summary.total_commits > 0 THEN Append(@, summary) ELSE @]

RECURSIVE TableLoop(_, _)
TableLoop(table, grouped) ==
    IF grouped = <<>> THEN table
    ELSE TableLoop(TableStep(table, Head(grouped)), Tail(grouped))

\* generate_performance_table: by_author is a dict in insertion order, by_day
\* a defaultdict whose entries are created when an author's day is added.
generate_performance_table(grouped) ==
    TableLoop(
        [summary |->
            [total_authors |-> Len(grouped),
             total_commits |-> SumSeq([i \in 1..Len(grouped) |-> grouped[i].total_commits]),
             total_additions |-> SumSeq([i \in 1..Len(grouped) |-> grouped[i].total_additions]),
             total_deletions |-> SumSeq([i \in 1..Len(grouped) |-> grouped[i].total_deletions])],
         by_author |-> <<>>,
         by_day |-> EmptyDict],
        grouped)


(***************************************************************************)
(* github_stats.py: calculate_weekly_trends                                *)
(*                                                                         *)
(* weekly_aggregates, a dict in insertion order, is the sequence of its    *)
(* entries [week, total_commits, total_additions, total_deletions,         *)
(* contributors]; week, the key 'YYYY-MM-DD', is the triple <<year, month, *)
(* day>>, whose lexicographic order is the order of the zero-padded        *)
(* strings; contributors is the week's 'contributors' dict, a sequence of  *)
(* entries [username, commits, additions, deletions] in insertion order.   *)
(***************************************************************************)
\* str.__lt__ on 'YYYY-MM-DD' keys
DateLess(x, y) ==
    \/ x[1] < y[1]
    \/ x[1] = y[1] /\ x[2] < y[2]
    \/ x[1] = y[1] /\ x[2] = y[2] /\ x[3] < y[3]

RECURSIVE SortedDates(_)
\* sorted(weekly_aggregates.keys())
SortedDates(S) ==
    IF S = {} THEN <<>>
    ELSE LET lo == CHOOSE x \in S : \A y \in S \ {x} : DateLess(x, y)
         IN <<lo>> \o SortedDates(S \ {lo})

\* round(num / den, 2) in hundredths, den > 0: the nearest hundredth.  A
\* quotient halfway between two hundredths is m/200 with m odd; it is a
\* binary fraction exactly when 25 divides m, and round() then takes the even
\* hundredth; otherwise the double nearest to the quotient lies on one side
\* of the tie and decides, and the model admits both sides.
Round2Outcomes(num, den) ==
    LET q == (100 * num) \div den
        r == (100 * num) % den
    IN IF 2 * r < den THEN {q}
       ELSE IF 2 * r > den THEN {q + 1}
       ELSE IF (2 * q + 1) % 25 = 0
            THEN {IF q % 2 = 0 THEN q ELSE q + 1}
            ELSE {q, q + 1}

\* weekly_aggregates[w]
WeekEntry(wa, w) == wa[CHOOSE i \in 1..Len(wa) : wa[i].week = w]

RECURSIVE SumCommits(_, _)
\* sum(weekly_aggregates[w]['total_commits'] for w in weeks)
SumCommits(wa, weeks) ==
    IF weeks = <<>> THEN 0
    ELSE WeekEntry(wa, Head(weeks)).total_commits + SumCommits(wa, Tail(weeks))

\* PeakWeek that takes, of the entries no entry exceeds, the one with the
\* smallest week key.
PeakWeek_Earliest(wa) ==
    wa[CHOOSE i \in 1..Len(wa) :
          /\ \A j \in 1..Len(wa) : wa[j].total_commits <= wa[i].total_commits
          /\ \A j \in 1..Len(wa) :
                (j # i /\ wa[j].total_commits = wa[i].total_commits)
                   => DateLess(wa[i].week, wa[j].week)]

\* max(weekly_aggregates.items(), key=total_commits): the first entry, in
\* iteration order, that no entry exceeds.
PeakWeek(wa) ==
    wa[CHOOSE i \in 1..Len(wa) :
          /\ \A j \in 1..Len(wa) : wa[j].total_commits <= wa[i].total_commits
          /\ \A j \in 1..(i - 1) : wa[j].total_commits < wa[i].total_commits]

RECURSIVE CountContributors(_, _)
\* contributor_weeks after the loop over one week's contributors
CountContributors(cw, cs) ==
    IF cs = <<>> THEN cw
    ELSE LET c == Head(cs).username
             i == IF \E k \in 1..Len(cw) : cw[k].username = c
                  THEN CHOOSE k \in 1..Len(cw) : cw[k].username = c
                  ELSE 0
         IN CountContributors(
                IF i = 0 THEN Append(cw, [username |-> c, weeks_active |-> 1])
                ELSE [cw EXCEPT ![i].weeks_active = @ + 1],
                Tail(cs))

RECURSIVE ContributorWeeks(_, _)
\* contributor_weeks, a dict in insertion order, after the loop over the weeks
ContributorWeeks(cw, wa) ==
    IF wa = <<>> THEN cw
    ELSE ContributorWeeks(CountContributors(cw, Head(wa).contributors), Tail(wa))

RECURSIVE InsertByCount_TiesReversed(_, _)
\* InsertByCount that places x before the entries with its count.
InsertByCount_TiesReversed(sorted, x) ==
    IF sorted = <<>> THEN <<x>>
    ELSE IF Head(sorted).weeks_active > x.weeks_active
         THEN <<Head(sorted)>> \o InsertByCount_TiesReversed(Tail(sorted), x)
         ELSE <<x>> \o sorted

RECURSIVE InsertByCount(_, _)
\* x placed after the entries of the sorted list that have at least its count
InsertByCount(sorted, x) ==
    IF sorted = <<>> THEN <<x>>
    ELSE IF Head(sorted).weeks_active >= x.weeks_active
         THEN <<Head(sorted)>> \o InsertByCount(Tail(sorted), x)
         ELSE <<x>> \o sorted

RECURSIVE SortByCount(_, _)
\* sorted(contributor_weeks.items(), key=count, reverse=True): stable
SortByCount(sorted, cw) ==
    IF cw = <<>> THEN sorted
    ELSE SortByCount(InsertByCount(sorted, Head(cw)), Tail(cw))

\* [:n]
Take(s, n) == SubSeq(s, 1, IF Len(s) < n THEN Len(s) ELSE n)

\* The number of most consistent contributors reported.
TopConsistent == 5
\* The least number of weeks for which a growth rate is computed.
MinGrowthWeeks == 4

\* GrowthRateOutcomes without the test for four weeks.
GrowthRateOutcomes_AnyLength(wa) ==
    LET sorted_weeks == SortedDates({wa[i].week : i \in 1..Len(wa)})
        mid_point == Len(sorted_weeks) \div 2
        first_half_commits == SumCommits(wa, SubSeq(sorted_weeks, 1, mid_point))
        second_half_commits ==
            SumCommits(wa, SubSeq(sorted_weeks, mid_point + 1, Len(sorted_weeks)))
    IN IF first_half_commits > 0
       THEN Round2Outcomes(second_half_commits - first_half_commits, first_half_commits)
       ELSE {0}

\* GrowthRateOutcomes on the weeks in insertion order, not sorted.
GrowthRateOutcomes_Unsorted(wa) ==
    LET weeks == [i \in 1..Len(wa) |-> wa[i].week]
        mid_point == Len(weeks) \div 2
        first_half_commits == SumCommits(wa, SubSeq(weeks, 1, mid_point))
        second_half_commits == SumCommits(wa, SubSeq(weeks, mid_point + 1, Len(weeks)))
    IN IF Len(weeks) >= MinGrowthWeeks
       THEN IF first_half_commits > 0
            THEN Round2Outcomes(second_half_commits - first_half_commits,
                                first_half_commits)
            ELSE {0}
       ELSE {0}

\* The growth rate: the outcomes of round((second - first) / first, 2), or 0.
GrowthRateOutcomes(wa) ==
    LET sorted_weeks == SortedDates({wa[i].week : i \in 1..Len(wa)})
        mid_point == Len(sorted_weeks) \div 2
        first_half_commits == SumCommits(wa, SubSeq(sorted_weeks, 1, mid_point))
        second_half_commits ==
            SumCommits(wa, SubSeq(sorted_weeks, mid_point + 1, Len(sorted_weeks)))
    IN IF Len(sorted_weeks) >= MinGrowthWeeks
       THEN IF first_half_commits > 0
            THEN Round2Outcomes(second_half_commits - first_half_commits,
                                first_half_commits)
            ELSE {0}
       ELSE {0}

\* calculate_weekly_trends: the results it can return; {} (the record
\* without fields) for an empty argument.
calculate_weekly_trends(wa) ==
    IF wa = <<>> THEN {EmptyDict}
    ELSE
    LET n == Len(wa)
        sorted_weeks == SortedDates({wa[i].week : i \in 1..n})
        total_commits == SumSeq([i \in 1..n |-> wa[i].total_commits])
        total_additions == SumSeq([i \in 1..n |-> wa[i].total_additions])
        total_deletions == SumSeq([i \in 1..n |-> wa[i].total_deletions])
        peak_week == PeakWeek(wa)
        most_consistent ==
            Take(SortByCount(<<>>, ContributorWeeks(<<>>, wa)), TopConsistent)
    IN { [period |-> [start |-> sorted_weeks[1],
                      end |-> sorted_weeks[n],
                      weeks_analyzed |-> n],
          totals |-> [commits |-> total_commits,
                      additions |-> total_additions,
                      deletions |-> total_deletions],
          averages |-> [weekly_commits |-> ac,
                        weekly_additions |-> aa,
                        weekly_deletions |-> ad],
          peak_week |-> [date |-> peak_week.week,
                         commits |-> peak_week.total_commits],
          most_consistent_contributors |-> most_consistent,
          commit_growth_rate |-> g] :
            ac \in Round2Outcomes(total_commits, n),
            aa \in Round2Outcomes(total_additions, n),
            ad \in Round2Outcomes(total_deletions, n),
            g \in GrowthRateOutcomes(wa) }

(***************************************************************************)
(* github_stats.py: process_statistics and aggregate_by_week.  A           *)
(* contributor record is [author |-> [login |-> l], weeks |-> <<...>>], a  *)
(* weekly entry [w, c, a, d].  The dicts the functions build are sequences *)
(* of entries in insertion order.                                          *)
(***************************************************************************)
\* The civil date <<year, month, day>> of a day number counted from
\* 1970-01-01, in the proleptic Gregorian calendar of datetime.
CivilFromDays(day_number) ==
    LET z == day_number + 719468
        era == z \div 146097
        doe == z - era * 146097
        yoe == (doe - doe \div 1460 + doe \div 36524 - doe \div 146096) \div 365
        doy == doe - (365 * yoe + yoe \div 4 - yoe \div 100)
        mp == (5 * doy + 2) \div 153
        d == doy - (153 * mp + 2) \div 5 + 1
        m == IF mp < 10 THEN mp + 3 ELSE mp - 9
        y == yoe + era * 400 + (IF m <= 2 THEN 1 ELSE 0)
    IN <<y, m, d>>

\* datetime.fromtimestamp(w).strftime('%Y-%m-%d'): without a tz argument the
\* date is that of the local time of the deployment.
week_date(w) == CivilFromDays((w + utc_offset) \div SecondsPerDay)

\* weeks[-num_weeks:]; the slice [-0:] is the whole list.
LastWeeks(weeks, n) ==
    IF n = 0 THEN weeks
    ELSE SubSeq(weeks, IF Len(weeks) > n THEN Len(weeks) - n + 1 ELSE 1, Len(weeks))

\* The position of the entry of a dict d whose field k has the value v, 0 if none.
KeyIndex(d, k, v) ==
    IF \E i \in 1..Len(d) : d[i][k] = v
    THEN CHOOSE i \in 1..Len(d) : d[i][k] = v
    ELSE 0

\* d[key] = entry on a dict in insertion order: an existing key keeps its place.
PutEntry(d, k, entry) ==
    IF KeyIndex(d, k, entry[k]) = 0 THEN Append(d, entry)
    ELSE [d EXCEPT ![KeyIndex(d, k, entry[k])] = entry]

RECURSIVE ActiveWeeks(_)
\* process_statistics' inner loop: the entries with commits, in order.
ActiveWeeks(weeks) ==
    IF weeks = <<>> THEN <<>>
    ELSE LET week == Head(weeks)
         IN (IF week.c > 0
             THEN <<[week |-> week_date(week.w), commits |-> week.c,
                     additions |-> week.a, deletions |-> week.d]>>
             ELSE <<>>) \o ActiveWeeks(Tail(weeks))

RECURSIVE ProcessLoop(_, _, _)
\* process_statistics' loop over the contributors
ProcessLoop(stats, cs, n) ==
    IF cs = <<>> THEN stats
    ELSE LET contributor == Head(cs)
             weekly_data == ActiveWeeks(LastWeeks(contributor.weeks, n))
         IN ProcessLoop(
                IF weekly_data # <<>>
                THEN PutEntry(stats, "username",
                              [username |-> contributor.author.login,
                               weekly_data |-> weekly_data])
                ELSE stats,
                Tail(cs), n)

\* process_statistics(contributors, num_weeks)
process_statistics(cs, n) == ProcessLoop(<<>>, cs, n)

\* aggregate_by_week's loop body for one weekly entry of one contributor
AggregateWeekEntry(wa, username, week) ==
    LET key == week_date(week.w)
        with_key == IF KeyIndex(wa, "week", key) = 0
                    THEN Append(wa, [week |-> key, total_commits |-> 0,
                                     total_additions |-> 0, total_deletions |-> 0,
                                     contributors |-> <<>>, contributor_count |-> 0])
                    ELSE wa
        i == KeyIndex(with_key, "week", key)
    IN IF week.c > 0
       THEN [with_key EXCEPT
                ![i].total_commits = @ + week.c,
                ![i].total_additions = @ + week.a,
                ![i].total_deletions = @ + week.d,
                ![i].contributors =
                    PutEntry(@, "username",
                             [username |-> username, commits |-> week.c,
                              additions |-> week.a, deletions |-> week.d])]
       ELSE with_key

RECURSIVE AggregateWeeks(_, _, _)
AggregateWeeks(wa, username, weeks) ==
    IF weeks = <<>> THEN wa
    ELSE AggregateWeeks(AggregateWeekEntry(wa, username, Head(weeks)), username,
                        Tail(weeks))

RECURSIVE AggregateContributors(_, _, _)
\* aggregate_by_week's first loop
AggregateContributors(wa, cs, n) ==
    IF cs = <<>> THEN wa
    ELSE AggregateContributors(
             AggregateWeeks(wa, Head(cs).author.login, LastWeeks(Head(cs).weeks, n)),
             Tail(cs), n)

\* TopContributor that takes the last of the entries no entry exceeds.
TopContributor_LastMax(cs) ==
    cs[CHOOSE i \in 1..Len(cs) :
          /\ \A j \in 1..Len(cs) : cs[j].commits <= cs[i].commits
          /\ \A j \in (i + 1)..Len(cs) : cs[j].commits < cs[i].commits]

\* max(contributors.items(), key=commits): the first entry, in iteration
\* order, that no entry exceeds.
TopContributor(cs) ==
    cs[CHOOSE i \in 1..Len(cs) :
          /\ \A j \in 1..Len(cs) : cs[j].commits <= cs[i].commits
          /\ \A j \in 1..(i - 1) : cs[j].commits < cs[i].commits]

\* The derived metrics of one week but the average.
DerivedMetrics(week_data) ==
    LET counted == [week_data EXCEPT !.contributor_count = Len(week_data.contributors)]
    IN IF week_data.contributors # <<>>
       THEN counted @@
            [top_contributor |-> TopContributor(week_data.contributors).username,
             top_contributor_commits |-> TopContributor(week_data.contributors).commits]
       ELSE counted

\* The outcomes of avg_commits_per_contributor, in hundredths.
AverageOutcomes(week_data) ==
    IF Len(week_data.contributors) > 0
    THEN Round2Outcomes(week_data.total_commits, Len(week_data.contributors))
    ELSE {0}

\* weekly_aggregates after the second loop, before the weeks without
\* activity are removed: the values it can have.
derived_aggregates(cs, n) ==
    LET wa == AggregateContributors(<<>>, cs, n)
        avgs == {f \in [1..Len(wa) -> UNION {AverageOutcomes(wa[i]) : i \in 1..Len(wa)}] :
                    \A i \in 1..Len(wa) : f[i] \in AverageOutcomes(wa[i])}
    IN {[i \in 1..Len(wa) |->
            DerivedMetrics(wa[i]) @@ [avg_commits_per_contributor |-> f[i]]] : f \in avgs}

\* ActiveAggregates without the filter.
ActiveAggregates_KeepAll(wa) == wa

\* {k: v for k, v in d.items() if v['total_commits'] > 0}
ActiveAggregates(wa) == SelectSeq(wa, LAMBDA v : v.total_commits > 0)

\* aggregate_by_week(contributors, num_weeks): the results it can return
aggregate_by_week(cs, n) == {ActiveAggregates(wa) : wa \in derived_aggregates(cs, n)}

(***************************************************************************)
(* github_stats.py: fetch_contributor_stats                                *)
(*                                                                         *)
(* A response is [status_code |-> n]; a request that raises, as for a      *)
(* connection error, is [exception |-> its name].  The log of a call is    *)
(* the sequence of what its requests gave so far.                          *)
(***************************************************************************)
\* retries = 5
MaxStatsRetries == 5

\* RaisesFor that raises for a repository not found only.
RaisesFor_NotFoundOnly(status_code) == status_code = 404

\* The tests after the retry loop: 404 raises, and so does every other
\* status but 200.
RaisesFor(status_code) == status_code = 404 \/ status_code # 200

\* What fetch_contributor_stats does after the last response of the log:
\* an exception of requests.get propagates; while the status is 202 and
\* retries are left it sleeps and asks again; otherwise the loop is over
\* and it raises or returns response.json().
fetch_outcome(log) ==
    LET last == log[Len(log)]
    IN IF "exception" \in DOMAIN last THEN "raise"
       ELSE IF last.status_code = 202 /\ Len(log) <= MaxStatsRetries THEN "retry"
       ELSE IF RaisesFor(last.status_code) THEN "raise"
       ELSE "return"

(***************************************************************************)
(* pr_metrics.py: PRMetrics._make_search_request                           *)
(*                                                                         *)
(* A response is [status_code, rate_limit_reset, total_count]:             *)
(* rate_limit_reset is the X-RateLimit-Reset header read as an integer, 0  *)
(* when the header is absent, and total_count the number of items of the   *)
(* JSON body.  A request that raises requests.RequestException is          *)
(* [exception |-> its name].                                               *)
(***************************************************************************)
\* max_retries = 3
max_retries == 3

\* {"items": [], "total_count": 0}
EmptySearchResult == [items |-> 0, total_count |-> 0]

\* The body of the retry loop after the response to the request of attempt
\* Len(log) - 1.  A 403 with a reset time sleeps and continues, and after
\* the last attempt the loop ends and the empty result is returned; 422
\* returns the empty result; raise_for_status raises for every other status
\* from 400 on; an exception is raised again in the last attempt and
\* followed by a sleep and the next attempt otherwise.
after_attempt(log) ==
    LET attempt == Len(log) - 1
        response == log[Len(log)]
    IN IF "exception" \in DOMAIN response
       THEN IF attempt = max_retries - 1 THEN [kind |-> "raise"] ELSE [kind |-> "retry"]
       ELSE IF response.status_code = 403 /\ response.rate_limit_reset # 0
       THEN IF attempt = max_retries - 1
            THEN [kind |-> "return", value |-> EmptySearchResult]
            ELSE [kind |-> "retry"]
       ELSE IF response.status_code = 422
       THEN [kind |-> "return", value |-> EmptySearchResult]
       ELSE IF response.status_code >= 400
       THEN IF attempt = max_retries - 1 THEN [kind |-> "raise"] ELSE [kind |-> "retry"]
       ELSE [kind |-> "return",
             value |-> [items |-> response.total_count,
                        total_count |-> response.total_count]]

(***************************************************************************)
(* pr_metrics.py: PRMetrics.aggregate_by_day_of_week                       *)
(*                                                                         *)
(* The value of a date field is None, [shape |-> "none"], a string that    *)
(* has not the form of a timestamp, [shape |-> "text", text], or a string  *)
(* of the form YYYY-MM-DDTHH:MM:SS followed by a suffix, [shape |->        *)
(* "timestamp", year, month, day, hour, minute, second, suffix], whose     *)
(* numbers need not be those of a date or a time of day.                   *)
(***************************************************************************)
NoneValue == [shape |-> "none"]

\* not date_str: None and the empty string are falsy.
Falsy(value) ==
    \/ value.shape = "none"
    \/ value.shape = "text" /\ value.text = ""

\* calendar.isleap
IsLeap(year) == year % 4 = 0 /\ (year % 100 # 0 \/ year % 400 = 0)

\* The days of a month.
DaysInMonth(year, month) ==
    IF month = 2 THEN (IF IsLeap(year) THEN 29 ELSE 28)
    ELSE IF month \in {4, 6, 9, 11} THEN 30 ELSE 31

\* strptime that takes every day number up to 31 in every month.
strptime_AnyDay(value) ==
    IF /\ value.shape = "timestamp"
       /\ value.suffix = "Z"
       /\ value.month \in 1..12
       /\ value.day \in 1..31
       /\ value.hour \in 0..23 /\ value.minute \in 0..59 /\ value.second \in 0..59
    THEN [status |-> "ok", date |-> <<value.year, value.month, value.day>>]
    ELSE [status |-> "ValueError"]

\* datetime.strptime(date_str, "%Y-%m-%dT%H:%M:%SZ"): the date of the
\* string, or ValueError when the string has another form or its numbers
\* are not those of a date and a time of day.
strptime(value) ==
    IF /\ value.shape = "timestamp"
       /\ value.suffix = "Z"
       /\ value.month \in 1..12
       /\ value.day \in 1..DaysInMonth(value.year, value.month)
       /\ value.hour \in 0..23 /\ value.minute \in 0..59 /\ value.second \in 0..59
    THEN [status |-> "ok", date |-> <<value.year, value.month, value.day>>]
    ELSE [status |-> "ValueError"]

\* The days before a month of a year.
RECURSIVE DaysBeforeMonth(_, _)
DaysBeforeMonth(year, month) ==
    IF month = 1 THEN 0
    ELSE DaysBeforeMonth(year, month - 1) + DaysInMonth(year, month - 1)

\* date.toordinal(): 1 for 0001-01-01.
toordinal(date) ==
    LET y == date[1] - 1
    IN y * 365 + y \div 4 - y \div 100 + y \div 400
       + DaysBeforeMonth(date[1], date[2]) + date[3]

\* date.weekday(): Monday is 0.
weekday(date) == (toordinal(date) + 6) % 7

\* The body of the loop of PRMetrics.aggregate_by_day_of_week for one item.
CountStep(counts, pr, field) ==
    LET date_str == Get(pr, field, NoneValue)
    IN IF Falsy(date_str) THEN counts
       ELSE IF strptime(date_str).status # "ok" THEN counts
       ELSE [counts EXCEPT ![days[weekday(strptime(date_str).date) + 1]] = @ + 1]

RECURSIVE CountLoop(_, _, _)
CountLoop(counts, items, field) ==
    IF items = <<>> THEN counts
    ELSE CountLoop(CountStep(counts, Head(items), field), Tail(items), field)

\* PRMetrics.aggregate_by_day_of_week(prs, date_field)
pr_aggregate_by_day_of_week(items, field) ==
    CountLoop([d \in SeqRange(days) |-> 0], items, field)

(***************************************************************************)
(* Inputs.                                                                 *)
(***************************************************************************)
\* The default of the num_weeks parameter.
DefaultNumWeeks == 52

Logins == {NameA1, NameA2}

\* Counter triples (commits, additions, deletions) of a record.
Metrics == {<<10, 100, 50>>, <<5, 50, 25>>}

\* Week timestamps: none (0), Monday 2024-01-01, Tuesday 2024-01-02 and
\* Monday 2024-01-08, 08:00 UTC.
Timestamps == {0, 1704096000, 1704182400, 1704700800}

\* What the three searches for one (alias, repository) pair can give: no
\* pull requests, one of each kind, or an exception of the first or of the
\* second search.
PrOutcomes ==
    {[opened |-> FetchOk(0), merged |-> FetchOk(0), reviewed |-> FetchOk(0)],
     [opened |-> FetchOk(1), merged |-> FetchOk(1), reviewed |-> FetchOk(1)],
     [opened |-> FetchError, merged |-> FetchOk(0), reviewed |-> FetchOk(0)],
     [opened |-> FetchOk(1), merged |-> FetchError, reviewed |-> FetchOk(0)]}

\* The number of (alias, repository) pairs of the entries before entry i
\* of all_stats that pull requests are fetched for.
RECURSIVE PairsBefore(_, _)
PairsBefore(stats, i) ==
    IF i = 1 THEN 0
    ELSE PairsBefore(stats, i - 1)
         + (IF PrFetched(stats, i - 1)
            THEN Cardinality(stats[i - 1].aliases) * Len(Repos) ELSE 0)

\* The outcomes 'flat' of all searches of a run, split by entry of all_stats.
PairsByAuthor(stats, flat) ==
    [i \in 1..Len(stats) |->
        IF PrFetched(stats, i)
        THEN SubSeq(flat, PairsBefore(stats, i) + 1, PairsBefore(stats, i + 1))
        ELSE <<>>]

\* The weekly records fetch_weekly_commits returns, 'author' added; some
\* lack 'w', some 'author', one is a bot account's.
WeekInputs ==
    {[w |-> ts, c |-> m[1], a |-> m[2], d |-> m[3], author |-> l] :
        ts \in Timestamps, m \in Metrics \cup {<<0, 0, 0>>}, l \in Logins}
    \cup {[c |-> 10, a |-> 100, d |-> 50, author |-> l] : l \in Logins}
    \cup {[w |-> ts, c |-> 5, a |-> 50, d |-> 25] : ts \in {0, 1704096000}}
    \cup {[w |-> 1704096000, c |-> 5, a |-> 50, d |-> 25, author |-> NameBot]}

\* The timestamps handed to get_day_name and get_day_of_week_stats: those of
\* the weekly records, Wednesday 2024-01-03, Friday 2024-01-05 and Sunday
\* 2024-01-07 at 08:00 UTC, and the first seconds and days after the epoch.
TimestampInputs ==
    Timestamps \cup {1704268800, 1704441600, 1704614400}
    \cup {1, SecondsPerDay - 1, SecondsPerDay, 7 * SecondsPerDay - 1, 7 * SecondsPerDay}

\* The statistics records handed to merge_author_stats.
StatsInputs ==
    {[author |-> l, commits |-> m[1], additions |-> m[2], deletions |-> m[3]] :
        l \in Logins \cup {NameA, NameBob}, m \in Metrics}
    \cup {[author |-> l, commits |-> 10] : l \in Logins}
    \cup {[username |-> l, commits |-> 5, additions |-> 50, deletions |-> 25] :
            l \in {NameA2, NameBob}}
    \cup {[author |-> l, total_commits |-> 5, lines_added |-> 50, repo |-> r] :
            l \in Logins, r \in {"r1", "r2"}}
    \cup {[author |-> l, commits |-> 10, weeks |-> ws] :
            l \in Logins,
            ws \in {<<[w |-> 1704096000, c |-> 10, a |-> 100, d |-> 50]>>,
                    <<[w |-> 1704700800, c |-> 5, a |-> 50, d |-> 25],
                      [w |-> 1704096000, c |-> 5, a |-> 50, d |-> 25]>>}}
    \cup {[author |-> l, commits |-> 10, weeks |-> <<>>] : l \in Logins}
    \cup {[author |-> EmptyStr, commits |-> 10], [commits |-> 10]}


\* The mappings handed to generate_day_breakdown: some weekdays, and the
\* keys "Unknown" and "total", with metrics.
AuthorStatsInputs ==
    UNION {[S -> {[commits |-> m[1], additions |-> m[2], deletions |-> m[3]] : m \in Metrics}] :
              S \in SUBSET {"Monday", "Friday", "Sunday", "Unknown", "total"}}

\* What a request for the contributor statistics can give.
StatsResponses ==
    {[status_code |-> c] : c \in {200, 202, 404, 500}}
    \cup {[exception |-> "ConnectionError"]}

\* What a request of the search can give: a page with no or one item, a
\* rate limit with and without a reset time, a rejected query, a server
\* error, or a connection error.
SearchResponses ==
    {[status_code |-> 200, rate_limit_reset |-> 0, total_count |-> n] : n \in {0, 1}}
    \cup {[status_code |-> 403, rate_limit_reset |-> t, total_count |-> 0] :
             t \in {0, 1704096000}}
    \cup {[status_code |-> c, rate_limit_reset |-> 0, total_count |-> 0] : c \in {422, 500}}
    \cup {[exception |-> "ConnectionError"]}

\* A timestamp string with suffix "Z" at a time of day.
Timestamp(year, month, day, hour, minute, second, suffix) ==
    [shape |-> "timestamp", year |-> year, month |-> month, day |-> day,
     hour |-> hour, minute |-> minute, second |-> second, suffix |-> suffix]

\* The values of the date fields of the items: timestamps of Monday
\* 2024-01-01, Friday 2024-01-05, Sunday 2024-01-07 and Thursday
\* 2024-02-29; strings with a day, a month or an hour that does not exist,
\* with a UTC offset or nothing in place of the "Z"; a text, the empty
\* string, and null.
DateValues ==
    {Timestamp(2024, 1, 1, 0, 0, 0, "Z"), Timestamp(2024, 1, 5, 23, 59, 59, "Z"),
     Timestamp(2024, 1, 7, 12, 30, 0, "Z"), Timestamp(2024, 2, 29, 8, 0, 0, "Z"),
     Timestamp(2023, 2, 29, 8, 0, 0, "Z"), Timestamp(2024, 13, 1, 8, 0, 0, "Z"),
     Timestamp(2024, 1, 5, 24, 0, 0, "Z"), Timestamp(2024, 1, 5, 8, 0, 0, "+00:00"),
     Timestamp(2024, 1, 5, 8, 0, 0, ""),
     [shape |-> "text", text |-> "yesterday"], [shape |-> "text", text |-> ""],
     NoneValue}

\* The items of a search result: with created_at, with closed_at as well,
\* and without either.
PrItems ==
    {[number |-> 1, created_at |-> v] : v \in DateValues}
    \cup {[number |-> 2, created_at |-> Timestamp(2024, 1, 1, 0, 0, 0, "Z"), closed_at |-> v] :
             v \in {Timestamp(2024, 1, 5, 23, 59, 59, "Z"), NoneValue}}
    \cup {[number |-> 3]}

\* The UTC offsets of the deployments: US Pacific standard time and UTC.
UtcOffsets == {-28800, 0}

\* The week starts of the contributor statistics: Sunday 2023-12-31 and
\* Sunday 2024-01-07, 00:00 UTC.
WeekStarts == {1703980800, 1704585600}

\* The weekly entries of a contributor record.
WeekEntries ==
    {[w |-> ts, c |-> c, a |-> 10 * c, d |-> 5 * c] : ts \in WeekStarts, c \in 0..2}

\* The 'weeks' lists of a contributor record: oldest week first, as the
\* statistics endpoint lists them.
WeekLists ==
    {ws \in UNION {[1..m -> WeekEntries] : m \in 0..MaxWeekEntries} :
        \A i \in 1..(Len(ws) - 1) : ws[i].w <= ws[i + 1].w}

\* The contributor records with logins ls and weeks lists ws.
ContributorRecords(ls, ws) ==
    [i \in 1..Len(ls) |-> [author |-> [login |-> ls[i]], weeks |-> ws[i]]]

\* The week keys of the trend calculator's argument.
WeekDates == {<<2023, 12, 24>>, <<2023, 12, 31>>, <<2024, 1, 7>>,
              <<2024, 1, 14>>, <<2024, 2, 4>>}

\* The logins with commits in a week, in the order of the week's
\* 'contributors' dict: for each week key two of six logins.
WeekTeam(week) ==
    CASE week = <<2023, 12, 24>> -> <<NameA1, NameA2>>
      [] week = <<2023, 12, 31>> -> <<NameBob, NameCarol>>
      [] week = <<2024, 1, 7>> -> <<NameDave, NameEve>>
      [] week = <<2024, 1, 14>> -> <<NameA2, NameBob>>
      [] OTHER -> <<NameEve, NameA1>>

\* The 'contributors' dict of a week of c commits: with one commit the first
\* login of the week, with more the second login with one commit and the
\* first with the others.
ContributorsOf(week, c) ==
    LET share(i) == IF i = 2 THEN 1 ELSE IF c < 2 THEN c ELSE c - 1
    IN [i \in 1..(IF c < 2 THEN c ELSE 2) |->
           [username |-> WeekTeam(week)[i], commits |-> share(i),
            additions |-> 10 * share(i), deletions |-> 5 * share(i)]]

\* One entry of weekly_aggregates.
WeekAggregate(week, c) ==
    [week |-> week, total_commits |-> c, total_additions |-> 10 * c,
     total_deletions |-> 5 * c, contributors |-> ContributorsOf(week, c)]

\* The dict whose keys, in insertion order, are weeks and whose commits are cs.
AggregateInput(weeks, cs) ==
    [i \in 1..Len(weeks) |-> WeekAggregate(weeks[i], cs[i])]

\* A list without repetition: the keys of a dict.
Distinct(s) == \A i, j \in 1..Len(s) : i # j => s[i] # s[j]

(***************************************************************************)
(* The state machine.  One analysis run makes one call; a result variable  *)
(* holds NotRun until its call is made.                                    *)
(***************************************************************************)
\* AuthorMapper.__init__: the table is loaded and the reverse mapping built.
InitMapper ==
    /\ aliases \in AliasFiles
    /\ username_to_canonical = build_reverse_mapping(aliases)

NothingRun ==
    /\ merged_results = NotRun
    /\ day_stats = NotRun
    /\ day_lookup = NotRun
    /\ combined_stats = NotRun
    /\ all_stats = NotRun
    /\ trends = NotRun
    /\ alias_lookup = NotRun
    /\ processed_stats = NotRun
    /\ aggregated_weeks = NotRun
    /\ performance_table = NotRun
    /\ day_breakdown = NotRun
    /\ day_counts = NotRun

InitCalls ==
    /\ stats_list = <<>>
    /\ merged_results = NotRun
    /\ weekly_stats = <<>>
    /\ day_stats = NotRun
    /\ day_lookup = NotRun
    /\ combined_stats = NotRun
    /\ all_stats = NotRun
    /\ weekly_aggregates = <<>>
    /\ trends = NotRun
    /\ alias_calls = <<>>
    /\ alias_lookup = NotRun
    /\ contributors = <<>>
    /\ num_weeks = DefaultNumWeeks
    /\ processed_stats = NotRun
    /\ aggregated_weeks = NotRun
    /\ grouped_stats = <<>>
    /\ performance_table = NotRun
    /\ author_stats = EmptyDict
    /\ day_breakdown = NotRun
    /\ pr_fetches = <<>>
    /\ run_pc = "idle"
    /\ fetch_log = <<>>
    /\ run_result = NotRun
    /\ search_pc = "idle"
    /\ search_log = <<>>
    /\ search_result = NotRun
    /\ pr_items = <<>>
    /\ date_field = "created_at"
    /\ day_counts = NotRun

MergeAuthorStats ==
    /\ NothingRun
    /\ \E k \in 0..MaxStatsList : \E list \in [1..k -> StatsInputs] :
          /\ stats_list' = list
          /\ merged_results' = merge_author_stats(list)
    /\ UNCHANGED <<mapperVars, prVars, searchVars, breakdownVars, fetchVars, aliasVars, weekVars, tableVars, dayVars, trendVars>>

AggregateByDayOfWeek ==
    /\ NothingRun
    /\ \E k \in 0..MaxWeeklyStats : \E stats \in [1..k -> WeekInputs] :
          /\ weekly_stats' = stats
          /\ day_stats' = aggregate_by_day_of_week(stats)
    /\ UNCHANGED <<mapperVars, prVars, searchVars, breakdownVars, fetchVars, aliasVars, weekVars, tableVars, mergeVars, day_lookup,
                   combined_stats, all_stats, trendVars>>

AnalyzeWeeklyPerformance ==
    /\ NothingRun
    /\ \E k \in 0..MaxWeeklyStats : \E stats \in [1..k -> WeekInputs] :
          /\ weekly_stats' = stats
          /\ all_stats' = [status |-> "ok", value |-> analyze_fold(stats)]
          /\ LET fold == analyze_fold(stats)
             IN \E flat \in [1..PairsBefore(fold, Len(fold) + 1) -> PrOutcomes] :
                   LET prs == PairsByAuthor(fold, flat)
                       grouped == pr_phase(fold, prs)
                   IN /\ pr_fetches' = prs
                      /\ grouped_stats' = grouped
                      /\ performance_table' =
                            [status |-> "ok",
                             value |-> generate_performance_table(grouped)]
    /\ UNCHANGED <<mapperVars, prVars, searchVars, breakdownVars, fetchVars, aliasVars, weekVars, mergeVars, day_stats, day_lookup,
                   combined_stats, trendVars>>

AnalyzeAllRepos ==
    /\ NothingRun
    /\ \E k \in 0..MaxWeeklyStats : \E stats \in [1..k -> WeekInputs] :
          /\ weekly_stats' = stats
          /\ combined_stats' = [status |-> "ok", value |-> analyze_all_repos(stats)]
    /\ UNCHANGED <<mapperVars, prVars, searchVars, breakdownVars, fetchVars, aliasVars, weekVars, tableVars, mergeVars, day_stats,
                   day_lookup, all_stats, trendVars>>

\* get_day_name and get_day_of_week_stats on one timestamp; the second has
\* no test for a falsy timestamp.
GetDayName ==
    /\ NothingRun
    /\ \E timestamp \in TimestampInputs :
          day_lookup' = [status |-> "ok",
                         timestamp |-> timestamp,
                         day_name |-> get_day_name(timestamp),
                         day_of_week_stats |-> get_day_of_week_stats(timestamp)]
    /\ UNCHANGED <<mapperVars, prVars, searchVars, breakdownVars, fetchVars, aliasVars, weekVars, tableVars, mergeVars, weekly_stats,
                   day_stats, combined_stats,
                   all_stats, trendVars>>

\* The arguments of add_alias: canonical names of the alias files and a new
\* one; aliases of the alias files, one in another letter case, and one with
\* a sharp s.
AliasCanonicalInputs == {NameA, NameBob}
AliasInputs == {NameA1, NameA2, Upper(NameA1), NameSharp}

\* Usernames handed to is_aliased: those of the model, in every letter case.
LookupInputs ==
    LET names == {NameA, NameA1, NameA2, NameBob, NameSharp, UnknownLogin}
    IN names \cup {Upper(x) : x \in names} \cup {Lower(x) : x \in names}

\* add_alias(canonical_name, new_alias)
AddAlias ==
    /\ NothingRun
    /\ Len(alias_calls) < MaxAliasCalls
    /\ \E canonical_name \in AliasCanonicalInputs, new_alias \in AliasInputs :
          LET after == add_alias(aliases, username_to_canonical, canonical_name, new_alias)
          IN /\ aliases' = after.aliases
             /\ username_to_canonical' = after.username_to_canonical
             /\ alias_calls' = Append(alias_calls, <<canonical_name, new_alias>>)
    /\ UNCHANGED <<alias_lookup, prVars, searchVars, breakdownVars, fetchVars, weekVars, tableVars, mergeVars, dayVars, trendVars>>

\* is_aliased and get_canonical_name on one username
IsAliased ==
    /\ NothingRun
    /\ \E username \in LookupInputs :
          alias_lookup' = [status |-> "ok",
                           username |-> username,
                           is_aliased |-> is_aliased(username),
                           canonical_name |-> get_canonical_name(username)]
    /\ UNCHANGED <<mapperVars, prVars, searchVars, breakdownVars, fetchVars, alias_calls, weekVars, tableVars, mergeVars, dayVars,
                   trendVars>>

InitAlias == InitMapper /\ InitCalls /\ utc_offset = 0
NextAlias == AddAlias \/ IsAliased
SpecAlias == InitAlias /\ [][NextAlias]_vars

\* process_statistics(contributors, num_weeks)
ProcessStatistics ==
    /\ NothingRun
    /\ \E k \in 0..Cardinality(Logins) :
       \E ls \in [1..k -> Logins], ws \in [1..k -> WeekLists], n \in 0..MaxWeekEntries :
          /\ contributors' = ContributorRecords(ls, ws)
          /\ num_weeks' = n
          /\ processed_stats' =
                [status |-> "ok", value |-> process_statistics(ContributorRecords(ls, ws), n)]
    /\ UNCHANGED <<mapperVars, prVars, searchVars, breakdownVars, fetchVars, aliasVars, utc_offset, aggregated_weeks, tableVars,
                   mergeVars, dayVars, trendVars>>

\* aggregate_by_week(contributors, num_weeks)
AggregateByWeek ==
    /\ NothingRun
    /\ \E k \in 0..Cardinality(Logins) :
       \E ls \in [1..k -> Logins], ws \in [1..k -> WeekLists], n \in 0..MaxWeekEntries :
          /\ contributors' = ContributorRecords(ls, ws)
          /\ num_weeks' = n
          /\ \E result \in aggregate_by_week(ContributorRecords(ls, ws), n) :
                aggregated_weeks' = [status |-> "ok", value |-> result]
    /\ UNCHANGED <<mapperVars, prVars, searchVars, breakdownVars, fetchVars, aliasVars, utc_offset, processed_stats, tableVars,
                   mergeVars, dayVars, trendVars>>

\* The weekly statistics use no alias table.
InitWeeks ==
    /\ aliases = <<>>
    /\ username_to_canonical = EmptyDict
    /\ InitCalls
    /\ utc_offset \in UtcOffsets
NextWeeks == ProcessStatistics \/ AggregateByWeek
SpecWeeks == InitWeeks /\ [][NextWeeks]_vars

\* analyze_weekly_performance enters step 2 with the first repository.
StartRun ==
    /\ NothingRun
    /\ run_pc = "idle"
    /\ run_pc' = "fetching"
    /\ fetch_log' = << <<>> >>
    /\ UNCHANGED <<mapperVars, prVars, searchVars, breakdownVars, aliasVars, weekVars, tableVars, mergeVars,
                   dayVars, trendVars, run_result>>

\* What follows a response r to a request of fetch_contributor_stats for
\* the repository at hand: the call waits for the next request, or it
\* raises, and the exception leaves fetch_weekly_commits and
\* analyze_weekly_performance, or it returns, and the run goes on with the
\* next repository or, after the last, to its result.
AfterResponse(r) ==
    LET repo == Len(fetch_log)
        log == Append(fetch_log[repo], r)
        logs == [fetch_log EXCEPT ![repo] = log]
    IN CASE fetch_outcome(log) = "retry" ->
              /\ fetch_log' = logs
              /\ UNCHANGED <<run_pc, run_result>>
         [] fetch_outcome(log) = "raise" ->
              /\ fetch_log' = logs
              /\ run_pc' = "done"
              /\ run_result' = [status |-> "Exception"]
         [] OTHER ->
              IF repo < Len(Repos)
              THEN /\ fetch_log' = Append(logs, <<>>)
                   /\ UNCHANGED <<run_pc, run_result>>
              ELSE /\ fetch_log' = logs
                   /\ run_pc' = "done"
                   /\ run_result' = [status |-> "ok"]

\* The first request of fetch_contributor_stats.
FirstRequest ==
    /\ run_pc = "fetching"
    /\ fetch_log[Len(fetch_log)] = <<>>
    /\ \E r \in StatsResponses : AfterResponse(r)
    /\ UNCHANGED <<mapperVars, prVars, searchVars, breakdownVars, aliasVars, weekVars, tableVars, mergeVars,
                   dayVars, trendVars>>

\* A request of the retry loop of fetch_contributor_stats.
RetryRequest ==
    /\ run_pc = "fetching"
    /\ fetch_log[Len(fetch_log)] # <<>>
    /\ \E r \in StatsResponses : AfterResponse(r)
    /\ UNCHANGED <<mapperVars, prVars, searchVars, breakdownVars, aliasVars, weekVars, tableVars, mergeVars,
                   dayVars, trendVars>>

InitFetch == InitMapper /\ InitCalls /\ utc_offset = 0
NextFetch == StartRun \/ FirstRequest \/ RetryRequest
SpecFetch == InitFetch /\ [][NextFetch]_vars

\* _make_search_request is called.
StartSearch ==
    /\ NothingRun
    /\ search_pc = "idle"
    /\ search_pc' = "requesting"
    /\ UNCHANGED <<mapperVars, prVars, breakdownVars, fetchVars, aliasVars, weekVars, tableVars,
                   mergeVars, dayVars, trendVars, search_log, search_result>>

\* One attempt of _make_search_request: the request and what follows it.
SearchAttempt ==
    /\ search_pc = "requesting"
    /\ \E response \in SearchResponses :
          LET log == Append(search_log, response)
              after == after_attempt(log)
          IN /\ search_log' = log
             /\ CASE after.kind = "retry" -> UNCHANGED <<search_pc, search_result>>
                  [] after.kind = "raise" ->
                       /\ search_pc' = "done"
                       /\ search_result' = [status |-> "RequestException"]
                  [] OTHER ->
                       /\ search_pc' = "done"
                       /\ search_result' = [status |-> "ok", value |-> after.value]
    /\ UNCHANGED <<mapperVars, prVars, breakdownVars, fetchVars, aliasVars, weekVars, tableVars,
                   mergeVars, dayVars, trendVars>>

\* PRMetrics uses no alias table.
InitSearch ==
    /\ aliases = <<>>
    /\ username_to_canonical = EmptyDict
    /\ InitCalls
    /\ utc_offset = 0
NextSearch == StartSearch \/ SearchAttempt
SpecSearch == InitSearch /\ [][NextSearch]_vars

\* PRMetrics.aggregate_by_day_of_week(prs, date_field)
PrAggregateByDayOfWeek ==
    /\ NothingRun
    /\ \E k \in 0..MaxPrItems : \E items \in [1..k -> PrItems] :
       \E field \in {"created_at", "closed_at"} :
          /\ pr_items' = items
          /\ date_field' = field
          /\ day_counts' = [status |-> "ok",
                            value |-> pr_aggregate_by_day_of_week(items, field)]
    /\ UNCHANGED <<mapperVars, searchVars, breakdownVars, fetchVars, aliasVars, weekVars,
                   tableVars, mergeVars, dayVars, trendVars>>

InitPrDays ==
    /\ aliases = <<>>
    /\ username_to_canonical = EmptyDict
    /\ InitCalls
    /\ utc_offset = 0
NextPrDays == PrAggregateByDayOfWeek
SpecPrDays == InitPrDays /\ [][NextPrDays]_vars

InitMerge == InitMapper /\ InitCalls /\ utc_offset = 0
NextMerge == MergeAuthorStats
SpecMerge == InitMerge /\ [][NextMerge]_vars

\* generate_day_breakdown(author_stats)
GenerateDayBreakdown ==
    /\ NothingRun
    /\ \E stats \in AuthorStatsInputs :
          /\ author_stats' = stats
          /\ day_breakdown' = [status |-> "ok", value |-> generate_day_breakdown(stats)]
    /\ UNCHANGED <<mapperVars, prVars, searchVars, fetchVars, aliasVars, weekVars, tableVars, mergeVars, dayVars,
                   trendVars>>

InitDays == InitMapper /\ InitCalls /\ utc_offset = 0
NextDays ==
    \/ GetDayName
    \/ AggregateByDayOfWeek
    \/ AnalyzeAllRepos
    \/ AnalyzeWeeklyPerformance
    \/ GenerateDayBreakdown
SpecDays == InitDays /\ [][NextDays]_vars

CalculateWeeklyTrends ==
    /\ NothingRun
    /\ \E k \in 0..Cardinality(WeekDates) :
       \E weeks \in [1..k -> WeekDates] :
          /\ Distinct(weeks)
          /\ \E cs \in [1..k -> 0..MaxCommits] :
                /\ weekly_aggregates' = AggregateInput(weeks, cs)
                /\ \E result \in calculate_weekly_trends(AggregateInput(weeks, cs)) :
                      trends' = [status |-> "ok", value |-> result]
    /\ UNCHANGED <<mapperVars, prVars, searchVars, breakdownVars, fetchVars, aliasVars, weekVars, tableVars, mergeVars, dayVars>>

\* The trend calculator uses no alias table.
InitTrends ==
    aliases = <<>> /\ username_to_canonical = EmptyDict /\ InitCalls /\ utc_offset = 0
NextTrends == CalculateWeeklyTrends
SpecTrends == InitTrends /\ [][NextTrends]_vars

(***************************************************************************)
(* Properties of the day-of-week folds, checked under SpecDays.            *)
(***************************************************************************)
WeekdayNames ==
    <<"Monday", "Tuesday", "Wednesday", "Thursday", "Friday", "Saturday", "Sunday">>

\* The weekday number a timestamp is claimed to have: Monday is 0.
ClaimedWeekday(timestamp) == ((timestamp \div 86400) + 3) % 7

\* The sum of field f ('c', 'a' or 'd') over the records of a list that
\* satisfy Keep.
SumWhere(stats, f, Keep(_)) ==
    SumSeq([i \in 1..Len(stats) |-> IF Keep(stats[i]) THEN Get(stats[i], f, 0) ELSE 0])

\* The sum of the commits of the buckets of one day -> counters mapping.
BucketCommits(by_day) ==
    SumSet([d \in DOMAIN by_day |-> by_day[d].commits], DOMAIN by_day)

\* The records of a list that have a timestamp.
WithTimestamp(stats) == SelectSeq(stats, LAMBDA r : Get(r, "w", 0) # 0)

\* C1: the commits of all day buckets of all canonical authors
\* (analyze_weekly_performance) add up to the commits of all input records,
\* and so do the seven buckets of aggregate_by_day_of_week.
C1_CommitsConserved ==
    /\ all_stats # NotRun =>
          SumSeq([i \in 1..Len(all_stats.value) |->
                     BucketCommits(all_stats.value[i].commits_by_day)])
             = SumWhere(weekly_stats, "c", LAMBDA r : TRUE)
    /\ day_stats # NotRun =>
          /\ day_stats.status = "ok"
          /\ BucketCommits(day_stats.value) = SumWhere(weekly_stats, "c", LAMBDA r : TRUE)

\* C5: aggregate_by_day_of_week returns, for any input list, exactly the seven
\* keys Monday..Sunday with non-negative integer counters, all zero for the
\* empty list.
C5_SevenDayBuckets ==
    day_stats # NotRun =>
       /\ day_stats.status = "ok"
       /\ DOMAIN day_stats.value = SeqRange(WeekdayNames)
       /\ \A d \in SeqRange(WeekdayNames) :
             /\ day_stats.value[d].commits \in Nat
             /\ day_stats.value[d].additions \in Nat
             /\ day_stats.value[d].deletions \in Nat
             /\ weekly_stats = <<>> => day_stats.value[d] = ZeroMetrics

\* The buckets and totals of an author in all_stats; none when the author has no entry.
AuthorBuckets(stats, author) ==
    IF IndexOf(stats, author) = 0
    THEN [commits_by_day |-> EmptyDict, total_commits |-> 0]
    ELSE [commits_by_day |-> stats[IndexOf(stats, author)].commits_by_day,
          total_commits |-> stats[IndexOf(stats, author)].total_commits]

\* C6: a record whose timestamp is 0 or absent has the day name "Unknown" and
\* changes no bucket: each day-of-week fold completes with the buckets it
\* gives for the list without such records.
C6_UnknownDayCountsNowhere ==
    /\ day_lookup # NotRun /\ day_lookup.timestamp = 0 => day_lookup.day_name = "Unknown"
    /\ day_stats # NotRun =>
          /\ day_stats.status = "ok"
          /\ day_stats = aggregate_by_day_of_week(WithTimestamp(weekly_stats))
    /\ combined_stats # NotRun =>
          combined_stats.value = analyze_all_repos(WithTimestamp(weekly_stats))
    /\ all_stats # NotRun =>
          \A i \in 1..Len(all_stats.value) :
             AuthorBuckets(all_stats.value, all_stats.value[i].author)
                = AuthorBuckets(analyze_fold(WithTimestamp(weekly_stats)),
                                all_stats.value[i].author)

\* C7: each bucket of aggregate_by_day_of_week holds the sums over exactly the
\* records whose timestamp falls on its UTC weekday, for every record list.
C7_BucketsPartitionRecords ==
    day_stats # NotRun =>
       /\ day_stats.status = "ok"
       /\ \A k \in 0..6 :
             LET OnDay(r) == Get(r, "w", 0) # 0 /\ ClaimedWeekday(Get(r, "w", 0)) = k
             IN day_stats.value[WeekdayNames[k + 1]]
                   = [commits   |-> SumWhere(weekly_stats, "c", OnDay),
                      additions |-> SumWhere(weekly_stats, "a", OnDay),
                      deletions |-> SumWhere(weekly_stats, "d", OnDay)]

GroupIndices(name) ==
    {i \in 1..Len(stats_list) :
        /\ record_author(stats_list[i]) # EmptyStr
        /\ get_canonical_name(record_author(stats_list[i])) = name}

\* The canonical names to which two or more records of stats_list resolve.
MergedNames ==
    {name \in {get_canonical_name(record_author(stats_list[i])) : i \in 1..Len(stats_list)} :
        Cardinality(GroupIndices(name)) >= 2}

\* The sum of field f over the records at the positions G that carry it.
FieldSum(G, f) ==
    SumSet([i \in G |-> IF f \in DOMAIN stats_list[i] THEN stats_list[i][f] ELSE 0], G)

\* C2: for two or more records that resolve to one canonical name,
\* merge_author_stats returns exactly one record for that name, with the
\* canonical name as author, each allow-listed numeric field equal to the sum
\* of that field over the group, and the group's authors as original authors;
\* a1(10,100,50) and a2(5,50,25) under A: [a1, a2] give A(15,150,75).
C2_GroupMergedBySum ==
    merged_results # NotRun =>
       /\ \A name \in MergedNames :
             /\ merged_results.status = "ok"
             /\ Cardinality({j \in 1..Len(merged_results.value) :
                               merged_results.value[j].author = name}) = 1
             /\ \A j \in 1..Len(merged_results.value) :
                   merged_results.value[j].author = name =>
                      /\ \A f \in numeric_fields :
                            (\E i \in GroupIndices(name) : f \in DOMAIN stats_list[i]) =>
                               /\ f \in DOMAIN merged_results.value[j]
                               /\ merged_results.value[j][f] = FieldSum(GroupIndices(name), f)
                      /\ merged_results.value[j].original_authors
                            = {record_author(stats_list[i]) : i \in GroupIndices(name)}
       /\ ( /\ aliases = << [name |-> NameA, aliases |-> <<NameA1, NameA2>>] >>
            /\ stats_list =
                 << [author |-> NameA1, commits |-> 10, additions |-> 100, deletions |-> 50],
                    [author |-> NameA2, commits |-> 5, additions |-> 50, deletions |-> 25] >> )
          => /\ merged_results.status = "ok"
             /\ merged_results.value =
                  << [author |-> NameA, commits |-> 15, additions |-> 150, deletions |-> 75,
                      original_authors |-> {NameA1, NameA2}] >>

\* A list that holds exactly one record per canonical author, the author of
\* each record being that canonical name.
OnePerCanonicalAuthor(list) ==
    /\ \A i \in 1..Len(list) :
          /\ "author" \in DOMAIN list[i]
          /\ list[i].author # EmptyStr
          /\ get_canonical_name(list[i].author) = list[i].author
    /\ \A i, j \in 1..Len(list) : i # j => list[i].author # list[j].author

\* C3: on a list with exactly one record per canonical author, each already
\* under its canonical name, merge_author_stats returns the same records in
\* the same order, equal to the input in every field but original_authors.
C3_IdempotentOnCanonicalSingletons ==
    merged_results # NotRun /\ OnePerCanonicalAuthor(stats_list) =>
       /\ merged_results.status = "ok"
       /\ Len(merged_results.value) = Len(stats_list)
       /\ \A i \in 1..Len(stats_list) :
             /\ DOMAIN merged_results.value[i] = DOMAIN stats_list[i] \cup {"original_authors"}
             /\ \A f \in DOMAIN stats_list[i] \ {"original_authors"} :
                   merged_results.value[i][f] = stats_list[i][f]

\* Two records, the first under a canonical name of the alias table, merged.
C3_Witness ==
    /\ merged_results # NotRun
    /\ OnePerCanonicalAuthor(stats_list)
    /\ Len(stats_list) = 2
    /\ Lower(stats_list[2].author) \in DOMAIN username_to_canonical
    /\ stats_list[1].author = NameBob
    /\ merged_results.status = "ok"
    /\ merged_results.value[2].original_authors = {NameA}

\* The aliases and the canonical names of the alias table.
TableNames ==
    UNION {SeqRange(aliases[i].aliases) \cup {aliases[i].name} : i \in 1..Len(aliases)}

\* Usernames to resolve: those of the model, in every letter case.
QueryNames ==
    LET names == {NameA, NameA1, NameA2, NameBob, NameSharp, UnknownLogin}
    IN names \cup {Upper(x) : x \in names} \cup {Lower(x) : x \in names}

\* C4: get_canonical_name is case-insensitive and total: an alias of the
\* table resolves to the same canonical name in upper case, in lower case and
\* as written; a username without mapping and the empty username are returned
\* unchanged.
C4_ResolveCaseInsensitive ==
    /\ \A x \in TableNames :
          /\ get_canonical_name(Upper(x)) = get_canonical_name(x)
          /\ get_canonical_name(Lower(x)) = get_canonical_name(x)
    /\ \A u \in QueryNames :
          (\A x \in TableNames : Lower(u) # Lower(x)) => get_canonical_name(u) = u
    /\ get_canonical_name(EmptyStr) = EmptyStr

(***************************************************************************)
(* Properties of the trend calculator, checked under SpecTrends.           *)
(***************************************************************************)
\* The number of weeks of wa that are earlier than its i-th week.
Rank(wa, i) == Cardinality({j \in 1..Len(wa) : DateLess(wa[j].week, wa[i].week)})

\* The commits of the chronologically first floor(n/2) weeks, and of the rest.
FirstHalfCommits(wa) ==
    SumSet([i \in 1..Len(wa) |-> wa[i].total_commits],
           {i \in 1..Len(wa) : Rank(wa, i) < Len(wa) \div 2})
SecondHalfCommits(wa) ==
    SumSet([i \in 1..Len(wa) |-> wa[i].total_commits],
           {i \in 1..Len(wa) : Rank(wa, i) >= Len(wa) \div 2})

Abs(x) == IF x < 0 THEN -x ELSE x

ScenarioWeeks ==
    << WeekAggregate(<<2023, 12, 24>>, 10), WeekAggregate(<<2023, 12, 31>>, 20),
       WeekAggregate(<<2024, 1, 7>>, 5), WeekAggregate(<<2024, 1, 14>>, 100) >>
ScenarioWeeksShuffled ==
    << WeekAggregate(<<2024, 1, 14>>, 100), WeekAggregate(<<2023, 12, 24>>, 10),
       WeekAggregate(<<2024, 1, 7>>, 5), WeekAggregate(<<2023, 12, 31>>, 20) >>

\* C10: for n >= 4 weeks with a positive first-half sum F, the growth rate is
\* (S - F) / F rounded to 2 decimals, F and S being the commits of the
\* chronologically first floor(n/2) weeks and of the other weeks, whatever the
\* insertion order; 10, 20 then 5, 100 give 2.5.
C10_GrowthRate ==
    /\ trends # NotRun
          /\ Len(weekly_aggregates) >= 4
          /\ FirstHalfCommits(weekly_aggregates) > 0 =>
          2 * Abs(100 * (SecondHalfCommits(weekly_aggregates)
                           - FirstHalfCommits(weekly_aggregates))
                  - trends.value.commit_growth_rate * FirstHalfCommits(weekly_aggregates))
             <= FirstHalfCommits(weekly_aggregates)
    /\ GrowthRateOutcomes(ScenarioWeeks) = {250}
    /\ GrowthRateOutcomes(ScenarioWeeksShuffled) = {250}

\* Five weeks inserted latest first, 3 commits in the first two and 5 in the
\* last three: a growth rate of 0.67.
C10_Witness ==
    /\ trends # NotRun
    /\ Len(weekly_aggregates) = 5
    /\ \A i \in 2..5 : DateLess(weekly_aggregates[i].week, weekly_aggregates[1].week)
    /\ FirstHalfCommits(weekly_aggregates) = 3
    /\ SecondHalfCommits(weekly_aggregates) = 5
    /\ trends.value.commit_growth_rate = 67

(***************************************************************************)
(* Properties of add_alias and is_aliased, checked under SpecAlias.        *)
(***************************************************************************)
\* A string with the differences of letter case removed: 'SS', 'ss' and the
\* sharp s are one string.
Casefold(s) == Lower(Upper(s))

\* The entries <<canonical name, alias>> of the alias table.
AliasEntries ==
    UNION {{<<aliases[i].name, x>> : x \in SeqRange(aliases[i].aliases)} :
              i \in 1..Len(aliases)}

\* C11: after any sequence of add_alias calls every alias, compared without
\* regard to letter case, stands under exactly one canonical name of the
\* alias table, and get_canonical_name resolves it to that name.
C11_AliasHasOneCanonical ==
    /\ \A e, f \in AliasEntries : Casefold(e[2]) = Casefold(f[2]) => e[1] = f[1]
    /\ \A e \in AliasEntries : get_canonical_name(e[2]) = e[1]

\* C12: is_aliased(u) is true exactly when u matches, without regard to
\* letter case, an alias or a canonical name of the alias table; so it is
\* true for every canonical name of the table, one introduced by add_alias
\* included.
C12_IsAliasedIffDeclared ==
    /\ \A u \in LookupInputs :
          is_aliased(u) <=> \E x \in TableNames : Casefold(u) = Casefold(x)
    /\ \A i \in 1..Len(aliases) : is_aliased(aliases[i].name)

\* The last add_alias call is the first one with its arguments.
LastCallIsFirst ==
    /\ alias_calls # <<>>
    /\ \A k \in 1..(Len(alias_calls) - 1) : alias_calls[k] # alias_calls[Len(alias_calls)]

\* Every alias of the table stays in the table, under its canonical name.
AppendOnly == \A e \in AliasEntries : e \in AliasEntries'

\* C13: add_alias(c, a) is an idempotent append: a second call with the same
\* arguments changes neither the alias table nor the reverse mapping, no
\* alias is ever removed from the table, and right after the first call
\* get_canonical_name resolves a, in any letter case, to c.
C13_AddAliasIdempotentAppend ==
    /\ [](alias_calls # <<>> =>
            LET c == alias_calls[Len(alias_calls)][1]
                a == alias_calls[Len(alias_calls)][2]
            IN /\ add_alias(aliases, username_to_canonical, c, a)
                    = [aliases |-> aliases, username_to_canonical |-> username_to_canonical]
               /\ LastCallIsFirst =>
                     /\ get_canonical_name(a) = c
                     /\ get_canonical_name(Upper(a)) = c
                     /\ get_canonical_name(Lower(a)) = c)
    /\ [][AppendOnly]_vars

(***************************************************************************)
(* Properties of the weekly statistics, checked under SpecWeeks.           *)
(***************************************************************************)
\* The most recent n entries of a list: its last n, all of it if it has fewer.
MostRecent(weeks, n) ==
    SubSeq(weeks, IF Len(weeks) > n THEN Len(weeks) - n + 1 ELSE 1, Len(weeks))

\* The commits of the entries of a list that fall on the week with key k.
RECURSIVE CommitsOn(_, _)
CommitsOn(weeks, k) ==
    IF weeks = <<>> THEN 0
    ELSE (IF week_date(Head(weeks).w) = k THEN Head(weeks).c ELSE 0)
         + CommitsOn(Tail(weeks), k)

\* The commits of all contributors in the week with key k, over the most
\* recent num_weeks entries of each.
WeekCommitSum(k) ==
    SumSeq([i \in 1..Len(contributors) |->
               CommitsOn(MostRecent(contributors[i].weeks, num_weeks), k)])

\* The week keys of every weekly entry of the input.
InputWeekKeys ==
    UNION {{week_date(contributors[i].weeks[j].w) : j \in 1..Len(contributors[i].weeks)} :
              i \in 1..Len(contributors)}

\* The week keys of the output of aggregate_by_week.
OutputWeekKeys ==
    {aggregated_weeks.value[i].week : i \in 1..Len(aggregated_weeks.value)}

\* C14: the output of aggregate_by_week contains a week exactly when the
\* commits of all contributors in that week, over the last num_weeks entries
\* of each contributor, sum to more than zero.
C14_WeekIffCommits ==
    aggregated_weeks # NotRun =>
       \A k \in InputWeekKeys \cup OutputWeekKeys :
          k \in OutputWeekKeys <=> WeekCommitSum(k) > 0

\* The input produces a single weekly aggregate, and its contributors map is empty.
SingleEmptyAggregate ==
    /\ aggregated_weeks # NotRun
    /\ \A wa \in derived_aggregates(contributors, num_weeks) :
          Len(wa) = 1 /\ wa[1].contributors = <<>>

\* C15 as stated: an input that produces a single weekly aggregate with an
\* empty contributors map yields, in the output of aggregate_by_week, that
\* week with contributor_count 0 and without the key top_contributor.
C15_EmptyWeekInOutput ==
    SingleEmptyAggregate =>
       /\ Len(aggregated_weeks.value) = 1
       /\ aggregated_weeks.value[1].contributor_count = 0
       /\ "top_contributor" \notin DOMAIN aggregated_weeks.value[1]

\* C15: an input that produces a single weekly aggregate with an empty
\* contributors map yields the empty output: the aggregate gets
\* contributor_count 0, no key top_contributor and an average of 0, and is
\* then removed with the weeks without commits.
C15_EmptyWeekRemoved ==
    SingleEmptyAggregate =>
       /\ aggregated_weeks.value = <<>>
       /\ \A wa \in derived_aggregates(contributors, num_weeks) :
             /\ wa[1].contributor_count = 0
             /\ wa[1].total_commits = 0
             /\ "top_contributor" \notin DOMAIN wa[1]
             /\ "top_contributor_commits" \notin DOMAIN wa[1]
             /\ wa[1].avg_commits_per_contributor = 0

\* Two contributors, each with one entry without commits in the same week.
C15_Witness ==
    /\ SingleEmptyAggregate
    /\ Len(contributors) = 2
    /\ \A i \in 1..2 : Len(contributors[i].weeks) = 1
    /\ num_weeks = 1
    /\ aggregated_weeks.value = <<>>

\* Every login occurs in one record, and the entries of a record that the
\* call takes fall in different weeks.
OneRecordPerContributor ==
    /\ \A i, j \in 1..Len(contributors) :
          i # j => contributors[i].author.login # contributors[j].author.login
    /\ \A i \in 1..Len(contributors) :
          LET taken == LastWeeks(contributors[i].weeks, num_weeks)
          IN \A j, k \in 1..Len(taken) :
                j # k => week_date(taken[j].w) # week_date(taken[k].w)

\* The commits of record i in the week with key k, over the entries the call takes.
CommitsOfIn(i, k) == CommitsOn(LastWeeks(contributors[i].weeks, num_weeks), k)

\* C16: for each week of the output of aggregate_by_week, top_contributor
\* is a contributor with the most commits in that week, the first of them in
\* the order of the input when several have the most, and
\* top_contributor_commits is that number of commits.
C16_TopContributorFirstMax ==
    (aggregated_weeks # NotRun /\ OneRecordPerContributor) =>
       \A n \in 1..Len(aggregated_weeks.value) :
          LET week_data == aggregated_weeks.value[n]
              most == CHOOSE m \in 0..100 :
                         /\ \E i \in 1..Len(contributors) : CommitsOfIn(i, week_data.week) = m
                         /\ \A i \in 1..Len(contributors) : CommitsOfIn(i, week_data.week) <= m
              first == CHOOSE i \in 1..Len(contributors) :
                          /\ CommitsOfIn(i, week_data.week) = most
                          /\ \A j \in 1..(i - 1) : CommitsOfIn(j, week_data.week) < most
          IN /\ "top_contributor" \in DOMAIN week_data
             /\ week_data.top_contributor = contributors[first].author.login
             /\ week_data.top_contributor_commits = most

\* Two contributors with the same commits in a week, the second login of
\* the model first in the input.
C16_Witness ==
    /\ aggregated_weeks # NotRun
    /\ OneRecordPerContributor
    /\ Len(contributors) = 2
    /\ contributors[1].author.login = NameA2
    /\ Len(aggregated_weeks.value) = 1
    /\ aggregated_weeks.value[1].contributor_count = 2
    /\ aggregated_weeks.value[1].top_contributor = NameA2
    /\ aggregated_weeks.value[1].top_contributor_commits = 2
    /\ aggregated_weeks.value[1].total_commits = 4

\* Every login occurs in one contributor record.
DistinctLogins ==
    \A i, j \in 1..Len(contributors) :
       i # j => contributors[i].author.login # contributors[j].author.login

\* The counters <<commits, additions, deletions>> of the entries with
\* commits among the most recent n entries of a list, in the order of the list.
ExpectedCounters(weeks, n) ==
    LET active == SelectSeq(MostRecent(weeks, n), LAMBDA week : week.c > 0)
    IN [j \in 1..Len(active) |-> <<active[j].c, active[j].a, active[j].d>>]

\* The counters of the records process_statistics returned for a login.
ReturnedCounters(login) ==
    LET i == KeyIndex(processed_stats.value, "username", login)
        data == processed_stats.value[i].weekly_data
    IN [j \in 1..Len(data) |-> <<data[j].commits, data[j].additions, data[j].deletions>>]

\* C20: for every contributor record and every num_weeks, process_statistics
\* returns for the contributor exactly the entries with commits among the
\* contributor's most recent num_weeks entries, in input order and with the
\* same counters, so at most num_weeks of them; a contributor without such
\* an entry is absent from the result, and so is any other login.
C20_RecentActiveWeeks ==
    (processed_stats # NotRun /\ DistinctLogins) =>
       /\ \A i \in 1..Len(contributors) :
             LET login == contributors[i].author.login
                 expected == ExpectedCounters(contributors[i].weeks, num_weeks)
             IN IF expected = <<>>
                THEN KeyIndex(processed_stats.value, "username", login) = 0
                ELSE /\ KeyIndex(processed_stats.value, "username", login) # 0
                     /\ ReturnedCounters(login) = expected
                     /\ Len(ReturnedCounters(login)) <= num_weeks
       /\ \A j \in 1..Len(processed_stats.value) :
             \E i \in 1..Len(contributors) :
                contributors[i].author.login = processed_stats.value[j].username

(***************************************************************************)
(* Peak week and most consistent contributors, checked under SpecTrends.   *)
(***************************************************************************)
\* The most commits of a week of the argument.
MostCommits ==
    CHOOSE m \in {weekly_aggregates[i].total_commits : i \in 1..Len(weekly_aggregates)} :
       \A i \in 1..Len(weekly_aggregates) : weekly_aggregates[i].total_commits <= m

\* The weeks of the argument with the most commits.
PeakCandidates ==
    {weekly_aggregates[i].week :
        i \in {j \in 1..Len(weekly_aggregates) :
                  weekly_aggregates[j].total_commits = MostCommits}}

\* C17 as stated: the peak week has the most commits of all weeks, and among
\* several weeks with the most commits it is the one with the smallest date
\* key, whatever the insertion order of the argument.
C17_PeakWeekEarliest ==
    (trends # NotRun /\ weekly_aggregates # <<>>) =>
       /\ trends.value.peak_week.commits = MostCommits
       /\ trends.value.peak_week.date \in PeakCandidates
       /\ \A w \in PeakCandidates \ {trends.value.peak_week.date} :
             DateLess(trends.value.peak_week.date, w)

\* C17: the peak week has the most commits of all weeks, and among several
\* weeks with the most commits it is the one inserted first into the
\* argument, which is the earliest week when the argument was filled in
\* chronological order.
C17_PeakWeekFirstInserted ==
    (trends # NotRun /\ weekly_aggregates # <<>>) =>
       /\ trends.value.peak_week.commits = MostCommits
       /\ \E i \in 1..Len(weekly_aggregates) :
             /\ weekly_aggregates[i].week = trends.value.peak_week.date
             /\ weekly_aggregates[i].total_commits = MostCommits
             /\ \A j \in 1..(i - 1) : weekly_aggregates[j].total_commits < MostCommits
       /\ (\A i \in 1..(Len(weekly_aggregates) - 1) :
              DateLess(weekly_aggregates[i].week, weekly_aggregates[i + 1].week))
          => \A w \in PeakCandidates \ {trends.value.peak_week.date} :
                DateLess(trends.value.peak_week.date, w)

\* Two weeks with the most commits, the later one inserted first and reported.
C17_Witness ==
    /\ trends # NotRun
    /\ Len(weekly_aggregates) = 3
    /\ Cardinality(PeakCandidates) = 2
    /\ MostCommits = 2
    /\ trends.value.peak_week.date = weekly_aggregates[1].week
    /\ \E w \in PeakCandidates : DateLess(w, trends.value.peak_week.date)

\* The contributors of the argument.
AllContributors ==
    UNION {{weekly_aggregates[i].contributors[k].username :
               k \in 1..Len(weekly_aggregates[i].contributors)} :
              i \in 1..Len(weekly_aggregates)}

\* The weeks of the argument in which a contributor has commits.
WeeksWith(u) ==
    {i \in 1..Len(weekly_aggregates) :
        \E k \in 1..Len(weekly_aggregates[i].contributors) :
           /\ weekly_aggregates[i].contributors[k].username = u
           /\ weekly_aggregates[i].contributors[k].commits > 0}

\* u is met before v when the weeks are read in the order of the argument
\* and the contributors of a week in the order of its dict.
MetBefore(u, v) ==
    LET first(x) == CHOOSE i \in WeeksWith(x) : \A j \in WeeksWith(x) : i <= j
        place(x) == CHOOSE k \in 1..Len(weekly_aggregates[first(x)].contributors) :
                       weekly_aggregates[first(x)].contributors[k].username = x
    IN \/ first(u) < first(v)
       \/ first(u) = first(v) /\ place(u) < place(v)

\* C18: calculate_weekly_trends returns at most 5 most consistent
\* contributors, the 5 first of all contributors when there are more; each
\* with weeks_active equal to the number of weeks in which the contributor
\* has commits; ordered by weeks_active descending, contributors with the
\* same count in the order in which they are first met; and no contributor
\* left out has more weeks than one that is listed.
C18_MostConsistent ==
    (trends # NotRun /\ weekly_aggregates # <<>>) =>
       LET listed == trends.value.most_consistent_contributors
           names == {listed[i].username : i \in 1..Len(listed)}
       IN /\ Len(listed) <= 5
          /\ Len(listed) = (IF Cardinality(AllContributors) < 5
                            THEN Cardinality(AllContributors) ELSE 5)
          /\ Cardinality(names) = Len(listed)
          /\ names \subseteq AllContributors
          /\ \A i \in 1..Len(listed) :
                listed[i].weeks_active = Cardinality(WeeksWith(listed[i].username))
          /\ \A i, j \in 1..Len(listed) :
                i < j =>
                   \/ listed[i].weeks_active > listed[j].weeks_active
                   \/ /\ listed[i].weeks_active = listed[j].weeks_active
                      /\ MetBefore(listed[i].username, listed[j].username)
          /\ \A u \in AllContributors \ names : \A i \in 1..Len(listed) :
                Cardinality(WeeksWith(u)) <= listed[i].weeks_active

\* Six contributors over five weeks: four with two weeks, the first of them
\* from the week inserted first, then one of the two with one week.
C18_Witness ==
    /\ trends # NotRun
    /\ Len(weekly_aggregates) = 5
    /\ weekly_aggregates[1].week = <<2024, 2, 4>>
    /\ Cardinality(AllContributors) = 6
    /\ Len(trends.value.most_consistent_contributors) = 5
    /\ trends.value.most_consistent_contributors[1] =
          [username |-> NameEve, weeks_active |-> 2]
    /\ trends.value.most_consistent_contributors[4].weeks_active = 2
    /\ trends.value.most_consistent_contributors[5].weeks_active = 1

(***************************************************************************)
(* Properties of the per-author day-of-week output, checked under SpecDays.*)
(***************************************************************************)
\* A mapping with exactly the seven weekday keys and natural counters.
SevenDayMapping(by_day) ==
    /\ DOMAIN by_day = SeqRange(WeekdayNames)
    /\ \A d \in SeqRange(WeekdayNames) :
          /\ by_day[d].commits \in Nat
          /\ by_day[d].additions \in Nat
          /\ by_day[d].deletions \in Nat

\* C19: the per-author day-of-week output, that of analyze_all_repos and
\* by_author[author].by_day of the performance table, holds for every author
\* all seven weekday keys, with zero counters for the days without activity.
C19_SevenDaysPerAuthor ==
    /\ combined_stats # NotRun =>
          \A author \in DOMAIN combined_stats.value :
             SevenDayMapping(combined_stats.value[author])
    /\ performance_table # NotRun =>
          \A i \in 1..Len(performance_table.value.by_author) :
             SevenDayMapping(performance_table.value.by_author[i].by_day)

(***************************************************************************)
(* The date keys of the weekly statistics, checked under SpecWeeks.        *)
(***************************************************************************)
\* The UTC calendar date of a timestamp.
UtcDate(w) == CivilFromDays(w \div SecondsPerDay)

\* The UTC dates of the weekly entries of the input.
InputUtcDates ==
    UNION {{UtcDate(contributors[i].weeks[j].w) : j \in 1..Len(contributors[i].weeks)} :
              i \in 1..Len(contributors)}

\* C21: the date keys process_statistics and aggregate_by_week derive from
\* the week timestamps are the UTC dates of those timestamps, under every
\* time zone of the deployment.
C21_WeekKeysAreUtcDates ==
    /\ processed_stats # NotRun =>
          \A i \in 1..Len(processed_stats.value) :
             \A j \in 1..Len(processed_stats.value[i].weekly_data) :
                processed_stats.value[i].weekly_data[j].week \in InputUtcDates
    /\ aggregated_weeks # NotRun =>
          \A i \in 1..Len(aggregated_weeks.value) :
             aggregated_weeks.value[i].week \in InputUtcDates

(***************************************************************************)
(* The merged per-week breakdown, checked under SpecMerge.                 *)
(***************************************************************************)
\* The week entries of the records at the positions G, as <<record, entry>>.
GroupWeekEntries(G) ==
    UNION {{<<i, k>> : k \in 1..Len(stats_list[i].weeks)} :
              i \in {g \in G : "weeks" \in DOMAIN stats_list[g]}}

\* The sum of field f over the week entries of the group G with week key w.
WeekFieldSum(G, w, f) ==
    LET P == {p \in GroupWeekEntries(G) : stats_list[p[1]].weeks[p[2]].w = w}
    IN SumSet([p \in P |-> stats_list[p[1]].weeks[p[2]][f]], P)

\* C22: when merge_author_stats merges a group of two or more records that
\* carry a per-week breakdown, the merged 'weeks' has exactly one entry per
\* distinct week key of the group, each entry holds the sums of commits,
\* additions and deletions over the group's entries with that key, and the
\* entries are in ascending order of week key.
C22_WeeksMergedByKey ==
    (merged_results # NotRun /\ merged_results.status = "ok") =>
       \A name \in MergedNames :
          \A j \in 1..Len(merged_results.value) :
             ( /\ merged_results.value[j].author = name
               /\ \E i \in GroupIndices(name) : "weeks" \in DOMAIN stats_list[i] ) =>
                LET G == GroupIndices(name)
                    keys == {stats_list[p[1]].weeks[p[2]].w : p \in GroupWeekEntries(G)}
                    ws == Get(merged_results.value[j], "weeks", <<>>)
                IN /\ Len(ws) = Cardinality(keys)
                   /\ {ws[i].w : i \in 1..Len(ws)} = keys
                   /\ \A i \in 1..Len(ws) :
                         /\ ws[i].c = WeekFieldSum(G, ws[i].w, "c")
                         /\ ws[i].a = WeekFieldSum(G, ws[i].w, "a")
                         /\ ws[i].d = WeekFieldSum(G, ws[i].w, "d")
                   /\ \A i \in 1..(Len(ws) - 1) : ws[i].w < ws[i + 1].w

\* Two records under one canonical name share the week 1704096000 and one
\* of them lists a later week first; the merged breakdown has both weeks.
C22_Witness ==
    /\ merged_results # NotRun
    /\ merged_results.status = "ok"
    /\ stats_list =
         << [author |-> NameA1, commits |-> 10,
             weeks |-> <<[w |-> 1704700800, c |-> 5, a |-> 50, d |-> 25],
                         [w |-> 1704096000, c |-> 5, a |-> 50, d |-> 25]>>],
            [author |-> NameA2, commits |-> 10,
             weeks |-> <<[w |-> 1704096000, c |-> 10, a |-> 100, d |-> 50]>>] >>
    /\ Len(merged_results.value) = 1
    /\ merged_results.value[1].weeks =
         <<[w |-> 1704096000, c |-> 15, a |-> 150, d |-> 75],
           [w |-> 1704700800, c |-> 5, a |-> 50, d |-> 25]>>

\* The canonical names to which the records of stats_list resolve.
ResolvedNames ==
    {get_canonical_name(record_author(stats_list[i])) :
        i \in {k \in 1..Len(stats_list) : record_author(stats_list[k]) # EmptyStr}}

\* C28: merge_author_stats returns for every group of records that resolve
\* to one canonical name, also when an allow-listed numeric field is absent
\* from the group's first record and present in a later one, and the merged
\* value of each allow-listed field is the sum over the records carrying it.
C28_MergeNeverRaises ==
    merged_results # NotRun =>
       /\ merged_results.status = "ok"
       /\ \A name \in ResolvedNames :
             \E j \in 1..Len(merged_results.value) :
                /\ merged_results.value[j].author = name
                /\ \A f \in numeric_fields :
                      (\E i \in GroupIndices(name) : f \in DOMAIN stats_list[i]) =>
                         /\ f \in DOMAIN merged_results.value[j]
                         /\ merged_results.value[j][f] = FieldSum(GroupIndices(name), f)

\* The sum of field f over the entries of a week's 'contributors' breakdown.
BreakdownSum(cs, f) == SumSeq([i \in 1..Len(cs) |-> cs[i][f]])

\* C29: in every week of aggregate_by_week's output the totals are the sums
\* of the per-contributor breakdown and contributor_count is the number of
\* its entries, also when a login occurs in more than one record or two
\* weekly entries of a contributor fall on one date key.
C29_TotalsMatchBreakdown ==
    aggregated_weeks # NotRun =>
       \A i \in 1..Len(aggregated_weeks.value) :
          LET week == aggregated_weeks.value[i]
          IN /\ week.total_commits = BreakdownSum(week.contributors, "commits")
             /\ week.total_additions = BreakdownSum(week.contributors, "additions")
             /\ week.total_deletions = BreakdownSum(week.contributors, "deletions")
             /\ week.contributor_count = Len(week.contributors)

(***************************************************************************)
(* The day breakdown of one author, checked under SpecDays.                *)
(***************************************************************************)
\* C27: generate_day_breakdown returns exactly the seven weekday keys; a
\* weekday of the argument maps to the argument's metrics, a weekday absent
\* from it to zero commits, additions and deletions, and keys of the
\* argument that are no weekday names are ignored.
C27_DayBreakdown ==
    day_breakdown # NotRun =>
       /\ DOMAIN day_breakdown.value = SeqRange(WeekdayNames)
       /\ \A d \in SeqRange(WeekdayNames) :
             day_breakdown.value[d] =
                IF d \in DOMAIN author_stats THEN author_stats[d]
                ELSE [commits |-> 0, additions |-> 0, deletions |-> 0]

\* The breakdown of Monday (10, 100, 50), Friday (5, 50, 25) and "Unknown".
C27_Witness ==
    /\ day_breakdown # NotRun
    /\ DOMAIN author_stats = {"Monday", "Friday", "Unknown"}
    /\ author_stats["Monday"] = [commits |-> 10, additions |-> 100, deletions |-> 50]
    /\ day_breakdown.value["Monday"].commits = 10
    /\ day_breakdown.value["Friday"] = author_stats["Friday"]
    /\ day_breakdown.value["Tuesday"].commits = 0
    /\ "Unknown" \notin DOMAIN day_breakdown.value

(***************************************************************************)
(* The performance table, checked under SpecDays.                          *)
(***************************************************************************)
\* C30: in the table generate_performance_table returns the summary agrees
\* with the breakdowns: summary.total_commits is the sum of total_commits
\* over the by_author entries and the sum of commits over the by_day
\* buckets, and summary.total_authors is the number of by_author entries.
C30_SummaryMatchesBreakdowns ==
    performance_table # NotRun =>
       LET table == performance_table.value
       IN /\ table.summary.total_commits =
                SumSeq([i \in 1..Len(table.by_author) |-> table.by_author[i].total_commits])
          /\ table.summary.total_commits =
                SumSet([d \in DOMAIN table.by_day |-> table.by_day[d].commits],
                       DOMAIN table.by_day)
          /\ table.summary.total_authors = Len(table.by_author)

\* The number of pull requests the searches of kind f gave for the pairs
\* 'outcomes' whose searches up to that kind raised no exception.
FetchedCount(outcomes, f) ==
    SumSeq([k \in 1..Len(outcomes) |->
              IF /\ outcomes[k].opened.status = "ok"
                 /\ (f = "merged" => outcomes[k].merged.status = "ok")
              THEN outcomes[k][f].count ELSE 0])

\* C26: in analyze_weekly_performance an exception of a pull request search
\* for one (alias, repository) pair is caught and skipped: the pairs after
\* it are still searched and counted, the run returns a performance table,
\* and the commit totals and day buckets of the fold are what they were
\* before the pull request phase.
C26_PrFailureSkipped ==
    (all_stats # NotRun /\ performance_table # NotRun) =>
       /\ performance_table.status = "ok"
       /\ Len(grouped_stats) = Len(all_stats.value)
       /\ \A i \in 1..Len(grouped_stats) :
             /\ [grouped_stats[i] EXCEPT !.pr_metrics = all_stats.value[i].pr_metrics]
                   = all_stats.value[i]
             /\ PrFetched(all_stats.value, i) =>
                   /\ Len(pr_fetches[i])
                         = Cardinality(all_stats.value[i].aliases) * Len(Repos)
                   /\ grouped_stats[i].pr_metrics.opened
                         = FetchedCount(pr_fetches[i], "opened")
                   /\ grouped_stats[i].pr_metrics.merged
                         = FetchedCount(pr_fetches[i], "merged")
       /\ \A j \in 1..Len(performance_table.value.by_author) :
             \E i \in 1..Len(all_stats.value) :
                /\ all_stats.value[i].author = performance_table.value.by_author[j].author
                /\ all_stats.value[i].total_commits
                      = performance_table.value.by_author[j].total_commits
                /\ \A d \in DOMAIN performance_table.value.by_author[j].by_day :
                      performance_table.value.by_author[j].by_day[d]
                         = all_stats.value[i].commits_by_day[d]

\* The searches for a2 in the first repository raise, those in the second
\* give one pull request of each kind: the table shows a2 with the ten
\* commits of Monday 2024-01-01 and one pull request opened and merged.
C26_Witness ==
    /\ performance_table # NotRun
    /\ weekly_stats = <<[w |-> 1704096000, c |-> 10, a |-> 100, d |-> 50, author |-> NameA2]>>
    /\ pr_fetches =
         << <<[opened |-> FetchError, merged |-> FetchOk(0), reviewed |-> FetchOk(0)],
              [opened |-> FetchOk(1), merged |-> FetchOk(1), reviewed |-> FetchOk(1)]>> >>
    /\ Len(performance_table.value.by_author) = 1
    /\ performance_table.value.by_author[1].total_commits = 10
    /\ performance_table.value.by_author[1].by_day["Monday"].commits = 10
    /\ performance_table.value.by_author[1].pr_metrics
         = [opened |-> 1, merged |-> 1, reviewed |-> 1]

(***************************************************************************)
(* The contributor statistics requests, checked under SpecFetch.           *)
(***************************************************************************)
\* Whether the last response of a log is a response with status 200.
LastIs200(log) ==
    /\ log # <<>>
    /\ "status_code" \in DOMAIN log[Len(log)]
    /\ log[Len(log)].status_code = 200

\* C25: fetch_contributor_stats issues at most 6 requests, the first and up
\* to 5 more while the status is 202, and returns data only when the last
\* response has status 200; a 404, a 202 that persists after the retries
\* or any other status raises, and the error leaves
\* analyze_weekly_performance, so the run ends without a result.
C25_StatsFetchIsFatal ==
    /\ \A repo \in 1..Len(fetch_log) :
          /\ Len(fetch_log[repo]) <= 6
          /\ \A k \in 1..(Len(fetch_log[repo]) - 1) :
                fetch_log[repo][k] = [status_code |-> 202]
          /\ repo < Len(fetch_log) => LastIs200(fetch_log[repo])
    /\ run_pc = "fetching" =>
          /\ run_result = NotRun
          /\ \A k \in 1..Len(fetch_log[Len(fetch_log)]) :
                fetch_log[Len(fetch_log)][k] = [status_code |-> 202]
          /\ Len(fetch_log[Len(fetch_log)]) < 6
    /\ run_pc = "done" =>
          /\ run_result # NotRun
          /\ run_result.status = "ok" <=>
                /\ Len(fetch_log) = Len(Repos)
                /\ \A repo \in 1..Len(fetch_log) : LastIs200(fetch_log[repo])
          /\ run_result.status = "Exception" <=>
                ~LastIs200(fetch_log[Len(fetch_log)])
          /\ run_result.status \in {"ok", "Exception"}

\* The statistics of the first repository come with the third request;
\* those of the second are still being calculated after six requests, and
\* the run ends with the exception.
C25_Witness ==
    /\ run_pc = "done"
    /\ run_result = [status |-> "Exception"]
    /\ Len(fetch_log) = 2
    /\ fetch_log[1] = <<[status_code |-> 202], [status_code |-> 202], [status_code |-> 200]>>
    /\ fetch_log[2] = [k \in 1..6 |-> [status_code |-> 202]]

(***************************************************************************)
(* The pull request search, checked under SpecSearch.                      *)
(***************************************************************************)
\* A transient failure: a rate limit, a server error or a network error.
TransientFailure(response) ==
    \/ "exception" \in DOMAIN response
    \/ response.status_code = 403
    \/ response.status_code >= 500

\* C24: _make_search_request makes at most 3 requests per call for every
\* sequence of responses, and when every attempt fails transiently (rate
\* limit 403, 5xx, network error) the call ends with an error, not with a
\* normal, empty result.
C24_ExhaustionIsAnError ==
    /\ Len(search_log) <= 3
    /\ ( /\ search_result # NotRun
         /\ \A k \in 1..Len(search_log) : TransientFailure(search_log[k]) )
       => search_result.status = "RequestException"

(***************************************************************************)
(* The day-of-week counts of pull requests, checked under SpecPrDays.      *)
(***************************************************************************)
\* The day numbers, counted from 1970-01-01, of 2023 and 2024.
DayNumbers == 19358..20088

\* Whether the chosen date field of an item holds a timestamp that ends in
\* "Z" and names a day of the calendar and a time of that day.
Parseable(pr) ==
    /\ date_field \in DOMAIN pr
    /\ pr[date_field].shape = "timestamp"
    /\ pr[date_field].suffix = "Z"
    /\ \E n \in DayNumbers :
          CivilFromDays(n) = <<pr[date_field].year, pr[date_field].month, pr[date_field].day>>
    /\ pr[date_field].hour < 24 /\ pr[date_field].minute < 60 /\ pr[date_field].second < 60

\* The weekday of the date of a parseable item: 1970-01-01 was a Thursday.
ItemWeekday(pr) ==
    LET n == CHOOSE n \in DayNumbers :
                CivilFromDays(n) = <<pr[date_field].year, pr[date_field].month,
                                     pr[date_field].day>>
    IN WeekdayNames[((n + 3) % 7) + 1]

====
